---------------------------- MODULE Spec2Model ----------------------------
(***************************************************************************)
(* A model of go-gitignore: the rule compiler (parsePattern, New) and the  *)
(* two-pass evaluator (GitIgnore.ignored) of src/gitignore.go, in the      *)
(* revision that starts at line 953 of that file.                          *)
(*                                                                         *)
(* Go strings are modelled as sequences of one-byte strings, so that       *)
(* "a/b" is <<"a", "/", "b">>.                                             *)
(***************************************************************************)
EXTENDS Naturals, Integers, Sequences, FiniteSets, TLC

VARIABLES
    lines,          \* the lines handed to New
    patterns,       \* GitIgnore.patterns: the compiled rules, in input order
    called,         \* whether Ignored has been called (result holds a value)
    inputPath,      \* Ignored's argument inputPath
    isDir,          \* Ignored's argument isDir
    trace,          \* the locals of the last ignored() call at its return
    result,         \* the value the last Ignored call returned
    returned,       \* the slice the last Patterns call returned, as its caller holds it
    procs,          \* the goroutines that query one shared GitIgnore, each with its locals
    wm              \* the last call of wildmatch.Match or MatchOpt

vars == <<lines, patterns, called, inputPath, isDir, trace, result, returned, procs, wm>>

\* no slice has been returned, no goroutine runs, the matcher has not been called
NoSlice == [nil |-> TRUE]
NoProcs == <<>>
NoMatchCall == [nil |-> TRUE]

-----------------------------------------------------------------------------
(* Bounds of the model.                                                    *)

\* the longest rule list handed to New
MaxRules == 2
\* the most '/'-separated components of a queried path
MaxDepth == 3

-----------------------------------------------------------------------------
(* The Go string functions the source calls.                               *)

\* str[i:] with a 0-based i
From(s, i) == SubSeq(s, i + 1, Len(s))

\* str[:i] with a 0-based i
Upto(s, i) == SubSeq(s, 1, i)

HasPrefix(s, p) == Len(s) >= Len(p) /\ SubSeq(s, 1, Len(p)) = p

HasSuffix(s, p) == Len(s) >= Len(p) /\ SubSeq(s, Len(s) - Len(p) + 1, Len(s)) = p

TrimPrefix(s, p) == IF HasPrefix(s, p) THEN From(s, Len(p)) ELSE s

TrimSuffix(s, p) == IF HasSuffix(s, p) THEN Upto(s, Len(s) - Len(p)) ELSE s

Contains(s, sub) == \E i \in 0..(Len(s) - Len(sub)) : SubSeq(s, i + 1, i + Len(sub)) = sub

\* strings.ReplaceAll for a non-empty old: non-overlapping, left to right
RECURSIVE ReplaceAll(_, _, _)
ReplaceAll(s, old, new) ==
    IF Len(s) < Len(old) THEN s
    ELSE IF HasPrefix(s, old) THEN new \o ReplaceAll(From(s, Len(old)), old, new)
    ELSE <<s[1]>> \o ReplaceAll(Tail(s), old, new)

\* strings.Split(s, "/"): the pieces between the separators, "" gives [""]
RECURSIVE SplitFrom(_, _)
SplitFrom(s, cur) ==
    IF s = <<>> THEN <<cur>>
    ELSE IF s[1] = "/" THEN <<cur>> \o SplitFrom(Tail(s), <<>>)
    ELSE SplitFrom(Tail(s), Append(cur, s[1]))

Split(s) == SplitFrom(s, <<>>)

\* strings.Join(parts, "/")
RECURSIVE Join(_)
Join(parts) ==
    IF parts = <<>> THEN <<>>
    ELSE IF Len(parts) = 1 THEN parts[1]
    ELSE parts[1] \o <<"/">> \o Join(Tail(parts))

\* path.Base: the last element, trailing slashes removed; "" gives ".", all
\* slashes give "/"
RECURSIVE StripTrailingSlashes(_)
StripTrailingSlashes(s) ==
    IF s # <<>> /\ s[Len(s)] = "/" THEN StripTrailingSlashes(Upto(s, Len(s) - 1)) ELSE s

Base(p) ==
    IF p = <<>> THEN <<".">>
    ELSE LET q == StripTrailingSlashes(p)
             parts == Split(q)
         IN  IF q = <<>> THEN <<"/">> ELSE parts[Len(parts)]

\* path.Clean: empty and "." elements dropped, ".." removes the element before
\* it (kept at the front of a relative path, dropped at the root), "" gives "."
RECURSIVE CleanElems(_, _, _)
CleanElems(elems, stack, rooted) ==
    IF elems = <<>> THEN stack
    ELSE LET e == elems[1]
             rest == Tail(elems)
         IN  IF e = <<>> \/ e = <<".">> THEN CleanElems(rest, stack, rooted)
             ELSE IF e = <<".", ".">> THEN
                 IF stack # <<>> /\ stack[Len(stack)] # <<".", ".">>
                 THEN CleanElems(rest, Upto(stack, Len(stack) - 1), rooted)
                 ELSE IF rooted THEN CleanElems(rest, stack, rooted)
                 ELSE CleanElems(rest, Append(stack, e), rooted)
             ELSE CleanElems(rest, Append(stack, e), rooted)

Clean(p) ==
    IF p = <<>> THEN <<".">>
    ELSE LET rooted == p[1] = "/"
             out == (IF rooted THEN <<"/">> ELSE <<>>) \o Join(CleanElems(Split(p), <<>>, rooted))
         IN  IF out = <<>> THEN <<".">> ELSE out

-----------------------------------------------------------------------------
(* The rule compiler.                                                      *)

\* the nil *pattern parsePattern returns for a line that compiles to nothing
Nil == [nil |-> TRUE]

\* unclosedBracket: more unescaped '[' than ']' that close one
RECURSIVE unclosedScan(_, _, _)
unclosedScan(s, escaped, open) ==
    IF s = <<>> THEN open > 0
    ELSE IF escaped THEN unclosedScan(Tail(s), FALSE, open)
    ELSE IF s[1] = "\\" THEN unclosedScan(Tail(s), TRUE, open)
    ELSE IF s[1] = "[" THEN unclosedScan(Tail(s), FALSE, open + 1)
    ELSE IF s[1] = "]" /\ open > 0 THEN unclosedScan(Tail(s), FALSE, open - 1)
    ELSE unclosedScan(Tail(s), FALSE, open)

unclosedBracket(pattern) == unclosedScan(pattern, FALSE, 0)

\* the number of consecutive backslashes of str that end at 0-based index i
RECURSIVE backslashesBefore(_, _)
backslashesBefore(str, i) ==
    IF i >= 0 /\ str[i + 1] = "\\" THEN 1 + backslashesBefore(str, i - 1) ELSE 0

\* trimSpaces with every trailing space removed, escaped or not
RECURSIVE trimSpaces_AllSpaces(_)
trimSpaces_AllSpaces(str) ==
    IF Len(str) > 0 /\ str[Len(str)] = " "
    THEN trimSpaces_AllSpaces(Upto(str, Len(str) - 1))
    ELSE str

\* the first loop of trimTrailingUnescapedSpaces
RECURSIVE trimSpaces(_)
trimSpaces(str) ==
    IF Len(str) > 0 /\ str[Len(str)] = " "
    THEN IF backslashesBefore(str, Len(str) - 2) % 2 = 1
         THEN str
         ELSE trimSpaces(Upto(str, Len(str) - 1))
    ELSE str

\* the second loop of trimTrailingUnescapedSpaces: "\ " becomes " "
RECURSIVE unescapeSpaces(_)
unescapeSpaces(str) ==
    IF str = <<>> THEN <<>>
    ELSE IF Len(str) >= 2 /\ str[1] = "\\" /\ str[2] = " "
    THEN <<" ">> \o unescapeSpaces(From(str, 2))
    ELSE <<str[1]>> \o unescapeSpaces(Tail(str))

trimTrailingUnescapedSpaces(str) ==
    IF str = <<>> THEN str ELSE unescapeSpaces(trimSpaces(str))

\* parseBody with a leading "\!" taken for a negation, as a leading "!" is
parseBody_EscapedBangNegates(original) ==
    LET escapedBang == HasPrefix(original, <<"\\", "!">>)
        negated == escapedBang \/ HasPrefix(original, <<"!">>)
        l1 == IF escapedBang THEN From(original, 2)
              ELSE IF HasPrefix(original, <<"\\", "#">>) \/ HasPrefix(original, <<"!">>)
              THEN Tail(original) ELSE original
        l2 == trimTrailingUnescapedSpaces(l1)
        dirOnly == HasSuffix(l2, <<"/">>)
        l3 == TrimSuffix(l2, <<"/">>)
        rooted == HasPrefix(l3, <<"/">>)
        l4 == TrimPrefix(l3, <<"/">>)
    IN  IF l2 = <<>> THEN Nil
        ELSE IF l4 = <<>> THEN Nil
        ELSE [original |-> original, pattern |-> l4, negated |-> negated,
              dirOnly |-> dirOnly, rooted |-> rooted]

\* parsePattern, from the marker switch on: line is the text left after the
\* early returns
parseBody(original) ==
    LET negated == ~HasPrefix(original, <<"\\", "!">>) /\ ~HasPrefix(original, <<"\\", "#">>)
                   /\ HasPrefix(original, <<"!">>)
        l1 == IF HasPrefix(original, <<"\\", "!">>) \/ HasPrefix(original, <<"\\", "#">>)
                 \/ HasPrefix(original, <<"!">>)
              THEN Tail(original) ELSE original
        l2 == trimTrailingUnescapedSpaces(l1)
        dirOnly == HasSuffix(l2, <<"/">>)
        l3 == TrimSuffix(l2, <<"/">>)
        rooted == HasPrefix(l3, <<"/">>)
        l4 == TrimPrefix(l3, <<"/">>)
    IN  IF l2 = <<>> THEN Nil
        ELSE IF l4 = <<>> THEN Nil
        ELSE [original |-> original, pattern |-> l4, negated |-> negated,
              dirOnly |-> dirOnly, rooted |-> rooted]

parsePattern(line) ==
    IF line = <<>> THEN Nil
    ELSE IF HasPrefix(line, <<"#">>) THEN Nil
    ELSE IF Contains(line, <<"/", "/">>) /\ ~Contains(line, <<"\\", "/", "/">>)
            /\ ~Contains(line, <<"/", "\\", "/">>) THEN Nil
    ELSE IF unclosedBracket(line) THEN Nil
    ELSE parseBody(line)

\* New: the lines that compile, in input order
RECURSIVE New(_)
New(ls) ==
    IF ls = <<>> THEN <<>>
    ELSE LET p == parsePattern(ls[1])
         IN  (IF p = Nil THEN <<>> ELSE <<p>>) \o New(Tail(ls))

\* Patterns returning the compiled body of each rule, not its original text
Patterns_Bodies(pats) == [i \in 1..Len(pats) |-> pats[i].pattern]

\* Patterns: the original text of each compiled rule
Patterns(pats) == [i \in 1..Len(pats) |-> pats[i].original]

\* the slice Patterns hands back, sharing the storage of the rule list
patternsSlice_Aliased(pats) == [elems |-> Patterns(pats), written |-> FALSE, aliased |-> TRUE]

\* the slice Patterns hands back: make() gives it storage of its own, so a
\* write to it by the caller reaches no rule
patternsSlice(pats) == [elems |-> Patterns(pats), written |-> FALSE, aliased |-> FALSE]

-----------------------------------------------------------------------------
(* Glob matching: the rewriting matchGlobPattern does, then the matcher.   *)

IsWildcard(c) == c = "*" \/ c = "?" \/ c = "["

\* containsUnescapedWildcards, from 0-based index idx on
RECURSIVE wildcardsFrom(_, _)
wildcardsFrom(pattern, idx) ==
    IF idx >= Len(pattern) THEN FALSE
    ELSE IF pattern[idx + 1] = "\\" /\ idx + 1 < Len(pattern) THEN wildcardsFrom(pattern, idx + 2)
    ELSE IF IsWildcard(pattern[idx + 1]) THEN TRUE
    ELSE wildcardsFrom(pattern, idx + 1)

containsUnescapedWildcards(pattern) == wildcardsFrom(pattern, 0)

\* whether the byte at 0-based idx is not directly preceded by a backslash
NotAfterBackslash(pattern, idx) == idx = 0 \/ pattern[idx] # "\\"

\* the loop of processEscapeSequences, from 0-based index idx on
RECURSIVE escapesFrom(_, _, _, _)
escapesFrom(pattern, idx, inCharClass, forLiteral) ==
    IF idx >= Len(pattern) THEN <<>>
    ELSE LET char == pattern[idx + 1]
         IN  IF char = "[" /\ NotAfterBackslash(pattern, idx)
             THEN <<char>> \o escapesFrom(pattern, idx + 1, TRUE, forLiteral)
             ELSE IF char = "]" /\ inCharClass /\ NotAfterBackslash(pattern, idx)
             THEN <<char>> \o escapesFrom(pattern, idx + 1, FALSE, forLiteral)
             ELSE IF char = "\\" /\ idx + 1 < Len(pattern)
             THEN LET next == pattern[idx + 2]
                      nextNextIsWildcard == idx + 2 < Len(pattern) /\ IsWildcard(pattern[idx + 3])
                      out == IF inCharClass THEN <<"\\", next>>
                             ELSE IF next \in {"*", "?", "[", "]"}
                             THEN (IF forLiteral THEN <<next>> ELSE <<"\\", next>>)
                             ELSE IF next \in {"#", "{", "}", "!"} THEN <<next>>
                             ELSE IF next = "\\"
                             THEN (IF ~forLiteral /\ nextNextIsWildcard
                                   THEN <<"\\", "\\">> ELSE <<"\\">>)
                             ELSE <<next>>
                  IN  out \o escapesFrom(pattern, idx + 2, inCharClass, forLiteral)
             ELSE <<char>> \o escapesFrom(pattern, idx + 1, inCharClass, forLiteral)

processEscapeSequences(pattern, forLiteral) ==
    IF pattern = <<>> THEN pattern ELSE escapesFrom(pattern, 0, FALSE, forLiteral)

\* the loop of escapeBracesForGit, from 0-based index charIdx on
RECURSIVE bracesFrom(_, _, _)
bracesFrom(pattern, charIdx, inCharClass) ==
    IF charIdx >= Len(pattern) THEN <<>>
    ELSE LET currentChar == pattern[charIdx + 1]
             inNext == IF currentChar = "[" /\ NotAfterBackslash(pattern, charIdx) THEN TRUE
                       ELSE IF currentChar = "]" /\ inCharClass
                               /\ NotAfterBackslash(pattern, charIdx) THEN FALSE
                       ELSE inCharClass
             escape == currentChar \in {"{", "}"} /\ ~inCharClass
                       /\ backslashesBefore(pattern, charIdx - 1) % 2 = 0
         IN  (IF escape THEN <<"\\">> ELSE <<>>) \o <<currentChar>>
             \o bracesFrom(pattern, charIdx + 1, inNext)

escapeBracesForGit(pattern) ==
    IF pattern = <<>> \/ (~Contains(pattern, <<"{">>) /\ ~Contains(pattern, <<"}">>))
    THEN pattern
    ELSE bracesFrom(pattern, 0, FALSE)

\* the inner copy loop of normalizeCharacterClassBrackets: up to and with the
\* closing ']'; gives <<copied text, next index>>
RECURSIVE classCopy(_, _)
classCopy(pattern, idx) ==
    IF idx >= Len(pattern) THEN <<<<>>, idx>>
    ELSE IF pattern[idx + 1] = "]" /\ NotAfterBackslash(pattern, idx)
    THEN <<<<"]">>, idx + 1>>
    ELSE LET r == classCopy(pattern, idx + 1)
         IN  <<<<pattern[idx + 1]>> \o r[1], r[2]>>

\* the outer loop of normalizeCharacterClassBrackets
RECURSIVE classesFrom(_, _)
classesFrom(pattern, idx) ==
    IF idx >= Len(pattern) THEN <<>>
    ELSE IF pattern[idx + 1] # "[" \/ (idx > 0 /\ pattern[idx] = "\\")
    THEN <<pattern[idx + 1]>> \o classesFrom(pattern, idx + 1)
    ELSE LET i1 == idx + 1
             neg == i1 < Len(pattern) /\ pattern[i1 + 1] \in {"!", "^"}
             i2 == IF neg THEN i1 + 1 ELSE i1
             first == i2 < Len(pattern) /\ pattern[i2 + 1] = "]"
             i3 == IF first THEN i2 + 1 ELSE i2
             r == classCopy(pattern, i3)
         IN  <<"[">> \o (IF neg THEN <<pattern[i1 + 1]>> ELSE <<>>)
             \o (IF first THEN <<"\\", "]">> ELSE <<>>) \o r[1]
             \o classesFrom(pattern, r[2])

normalizeCharacterClassBrackets(pattern) ==
    IF pattern = <<>> \/ ~Contains(pattern, <<"[">>) THEN pattern
    ELSE classesFrom(pattern, 0)

\* the first index at or after idx that holds no backslash
RECURSIVE runEnd(_, _)
runEnd(glob, idx) ==
    IF idx < Len(glob) /\ glob[idx + 1] = "\\" THEN runEnd(glob, idx + 1) ELSE idx

Backslashes(n) == [i \in 1..n |-> "\\"]

\* the loop of normalizeWildcardEscapes, from 0-based index idx on
RECURSIVE wildcardEscapesFrom(_, _, _)
wildcardEscapesFrom(glob, idx, inClass) ==
    IF idx >= Len(glob) THEN <<>>
    ELSE LET currentChar == glob[idx + 1]
         IN  IF currentChar = "[" /\ ~inClass
             THEN <<currentChar>> \o wildcardEscapesFrom(glob, idx + 1, TRUE)
             ELSE IF currentChar = "]" /\ inClass
             THEN <<currentChar>> \o wildcardEscapesFrom(glob, idx + 1, FALSE)
             ELSE IF currentChar = "\\" /\ idx + 1 < Len(glob)
             THEN LET e == runEnd(glob, idx)
                      runLen == e - idx
                      meta == e < Len(glob) /\ ~inClass /\ glob[e + 1] \in {"*", "?"}
                  IN  Backslashes(IF meta /\ runLen % 2 = 1 THEN runLen + 1 ELSE runLen)
                      \o wildcardEscapesFrom(glob, e, inClass)
             ELSE <<currentChar>> \o wildcardEscapesFrom(glob, idx + 1, inClass)

normalizeWildcardEscapes(glob) ==
    IF glob = <<>> THEN glob ELSE wildcardEscapesFrom(glob, 0, FALSE)

\* normalizeRedundantWildcards: "***" becomes "**" until none is left
RECURSIVE normalizeRedundantWildcards(_)
normalizeRedundantWildcards(pattern) ==
    IF Contains(pattern, <<"*", "*", "*">>)
    THEN normalizeRedundantWildcards(ReplaceAll(pattern, <<"*", "*", "*">>, <<"*", "*">>))
    ELSE pattern

\* The glob library's rule for a pattern rest that may match the empty text
isZeroLengthPattern(pattern) ==
    pattern \in {<<>>, <<"*">>, <<"*", "*">>, <<"/", "*", "*">>, <<"*", "*", "/">>,
                 <<"/", "*", "*", "/">>}

\* the 0-based positions of name at which a path segment starts
SegmentStarts(name) == {0} \cup {k \in 1..Len(name) : name[k] = "/"}

\* the lengths of the prefixes of name that hold no '/'
SegmentRuns(name) == {k \in 0..Len(name) : \A j \in 1..k : name[j] # "/"}

\* The glob library's matcher, doublestar.MatchUnvalidated, which is not part
\* of the repository's sources.  Its semantics for the tokens that occur in
\* the model ('*', '**', '?', an escaped byte, a literal byte; no '[' and no
\* '{'): '**' is special only as a whole path segment, where '**/' stands
\* for any number of leading segments and a final '**' for any rest; every
\* other star run stands for a run of bytes without '/', and '?' for one
\* byte other than '/'.  startOfSegment is true at the start of the pattern
\* and right after a '/' of the pattern.
RECURSIVE doublestarFrom(_, _, _)
doublestarFrom(pattern, name, startOfSegment) ==
    IF name = <<>> THEN isZeroLengthPattern(pattern)
    ELSE IF pattern = <<>> THEN FALSE
    ELSE IF pattern[1] = "*"
    THEN LET two == Len(pattern) >= 2 /\ pattern[2] = "*"
         IN  IF two /\ startOfSegment /\ Len(pattern) = 2 THEN TRUE
             ELSE IF two /\ startOfSegment /\ pattern[3] = "/"
             THEN \E k \in SegmentStarts(name) :
                      doublestarFrom(From(pattern, 3), From(name, k), TRUE)
             ELSE \E k \in SegmentRuns(name) :
                      doublestarFrom(From(pattern, IF two THEN 2 ELSE 1), From(name, k), FALSE)
    ELSE IF pattern[1] = "?"
    THEN name[1] # "/" /\ doublestarFrom(Tail(pattern), Tail(name), FALSE)
    ELSE IF pattern[1] = "\\"
    THEN Len(pattern) >= 2 /\ pattern[2] = name[1]
         /\ doublestarFrom(From(pattern, 2), Tail(name), pattern[2] = "/")
    ELSE pattern[1] = name[1] /\ doublestarFrom(Tail(pattern), Tail(name), pattern[1] = "/")

doublestarMatch(pattern, name) == doublestarFrom(pattern, name, TRUE)

\* matchGlobPattern
matchGlobPattern(p, targetPath) ==
    LET glob == p.pattern
        hasEscapedWildcards == Contains(glob, <<"\\", "*">>) \/ Contains(glob, <<"\\", "?">>)
                               \/ Contains(glob, <<"\\", "[">>)
        g1 == normalizeCharacterClassBrackets(escapeBracesForGit(processEscapeSequences(glob, FALSE)))
        g2 == IF hasEscapedWildcards THEN g1 ELSE normalizeWildcardEscapes(g1)
    IN  IF ~containsUnescapedWildcards(glob)
        THEN processEscapeSequences(glob, TRUE) = targetPath
        ELSE doublestarMatch(normalizeRedundantWildcards(g2), targetPath)

\* matchesSimplePattern with every rule matched against the base name
matchesSimplePattern_AlwaysBase(pat, targetPath, dir) ==
    matchGlobPattern(pat, Base(targetPath))

\* matchesSimplePattern with every rule matched against the whole path
matchesSimplePattern_NeverBase(pat, targetPath, dir) ==
    matchGlobPattern(pat, targetPath)

\* matchesSimplePattern: a rule that is not rooted and holds no '/' is matched
\* against the base name, every other rule against the whole path
matchesSimplePattern(pat, targetPath, dir) ==
    LET matchPath == IF ~pat.rooted /\ ~Contains(pat.pattern, <<"/">>)
                     THEN Base(targetPath) ELSE targetPath
    IN  matchGlobPattern(pat, matchPath)

\* extractPatternBase: every trailing "/**" removed
RECURSIVE extractPatternBase(_)
extractPatternBase(pattern) ==
    IF HasSuffix(pattern, <<"/", "*", "*">>)
    THEN extractPatternBase(TrimSuffix(pattern, <<"/", "*", "*">>))
    ELSE pattern

isPatternBaseDirectory(pat, path, dir) ==
    LET base == extractPatternBase(pat.pattern)
        basePattern == [original |-> <<>>, pattern |-> base, negated |-> FALSE,
                        dirOnly |-> FALSE, rooted |-> pat.rooted]
    IN  IF base = <<>> \/ base = <<"*", "*">> \/ HasSuffix(base, <<"*", "*">>) THEN FALSE
        ELSE IF pat.dirOnly /\ ~dir THEN FALSE
        ELSE matchesSimplePattern(basePattern, path, dir)

\* detectGitPatternQuirk: <<a quirk was detected, its result>>
detectGitPatternQuirk(pat, path, dir) ==
    IF HasSuffix(pat.pattern, <<"/", "*", "*">>) /\ isPatternBaseDirectory(pat, path, dir)
    THEN <<TRUE, FALSE>>
    ELSE <<FALSE, FALSE>>

\* matchesPattern without the directory-only test
matchesPattern_NoDirOnly(pat, targetPath, dir) ==
    LET quirk == detectGitPatternQuirk(pat, targetPath, dir)
    IN  IF quirk[1] THEN quirk[2] ELSE matchesSimplePattern(pat, targetPath, dir)

matchesPattern(pat, targetPath, dir) ==
    IF pat.dirOnly /\ ~dir THEN FALSE
    ELSE LET quirk == detectGitPatternQuirk(pat, targetPath, dir)
         IN  IF quirk[1] THEN quirk[2] ELSE matchesSimplePattern(pat, targetPath, dir)

-----------------------------------------------------------------------------
(* The evaluator.                                                          *)

\* the loop of normalizePathForMatching that collapses runs of '/'
RECURSIVE collapseSlashes(_)
collapseSlashes(p) ==
    IF Contains(p, <<"/", "/">>) THEN collapseSlashes(ReplaceAll(p, <<"/", "/">>, <<"/">>)) ELSE p

\* normalizePathForMatching without the final path.Clean
normalizePathForMatching_NoClean(path) ==
    IF path = <<>> \/ path = <<".">> THEN path
    ELSE LET preserveDoubleSlash == HasPrefix(path, <<"/", "/">>) /\ ~HasPrefix(path, <<"/", "/", "/">>)
             collapsed == collapseSlashes(path)
         IN  IF preserveDoubleSlash /\ ~HasPrefix(collapsed, <<"/", "/">>)
             THEN <<"/">> \o collapsed ELSE collapsed

normalizePathForMatching(path) ==
    IF path = <<>> \/ path = <<".">> THEN path
    ELSE LET preserveDoubleSlash == HasPrefix(path, <<"/", "/">>) /\ ~HasPrefix(path, <<"/", "/", "/">>)
             collapsed == collapseSlashes(path)
             restored == IF preserveDoubleSlash /\ ~HasPrefix(collapsed, <<"/", "/">>)
                         THEN <<"/">> \o collapsed ELSE collapsed
         IN  Clean(restored)

\* the paths findExcludedParentDirectories checks: every prefix of the
\* components of targetPath, normalized
pathsToCheck(targetPath) ==
    LET parts == Split(targetPath)
    IN  [i \in 1..Len(parts) |-> normalizePathForMatching(Join(Upto(parts, i)))]

\* excludeStep with a matching negation deleting nothing
excludeStep_NoDelete(before, pat, checks, targetPath) ==
    LET matched == {checks[i] : i \in {j \in 1..Len(checks) :
                       checks[j] # targetPath /\ matchesPattern(pat, checks[j], TRUE)}}
    IN  IF pat.negated THEN before ELSE before \cup matched

\* excludeStep with the parents matched as files, not as directories
excludeStep_AsFile(before, pat, checks, targetPath) ==
    LET matched == {checks[i] : i \in {j \in 1..Len(checks) :
                       checks[j] # targetPath /\ matchesPattern(pat, checks[j], FALSE)}}
    IN  IF pat.negated THEN before \ matched ELSE before \cup matched

\* one iteration of the outer loop of findExcludedParentDirectories: rule pat
\* applied to every checked path but the target itself, each as a directory
excludeStep(before, pat, checks, targetPath) ==
    LET matched == {checks[i] : i \in {j \in 1..Len(checks) :
                       checks[j] # targetPath /\ matchesPattern(pat, checks[j], TRUE)}}
    IN  IF pat.negated THEN before \ matched ELSE before \cup matched

\* the excluded map after the first k rules have been applied
RECURSIVE excludedAfter(_, _, _)
excludedAfter(pats, targetPath, k) ==
    IF k = 0 THEN {}
    ELSE excludeStep(excludedAfter(pats, targetPath, k - 1), pats[k],
                     pathsToCheck(targetPath), targetPath)

\* findExcludedParentDirectories: the keys of the map it returns
findExcludedParentDirectories(pats, targetPath) == excludedAfter(pats, targetPath, Len(pats))

\* hasExcludedParentDirectory with the loop stopping one component early, so
\* that the nearest parent is never looked up
hasExcludedParentDirectory_SkipsNearest(targetPath, excludedDirs) ==
    LET parts == Split(targetPath)
    IN  IF Len(parts) <= 1 THEN FALSE
        ELSE \E pathIdx \in 1..(Len(parts) - 2) : Join(Upto(parts, pathIdx)) \in excludedDirs

hasExcludedParentDirectory(targetPath, excludedDirs) ==
    LET parts == Split(targetPath)
    IN  IF Len(parts) <= 1 THEN FALSE
        ELSE \E pathIdx \in 1..(Len(parts) - 1) : Join(Upto(parts, pathIdx)) \in excludedDirs

\* stripDotSlash with one "./" removed, not every leading one
stripDotSlash_Once(p) == TrimPrefix(p, <<".", "/">>)

\* the leading "./" prefixes removed; <<>> when nothing is left
RECURSIVE stripDotSlash(_)
stripDotSlash(p) ==
    IF HasPrefix(p, <<".", "/">>) THEN stripDotSlash(TrimPrefix(p, <<".", "/">>)) ELSE p

\* decide without the exception for the rule "." on the path "."
decide_NoRootException(before, pat, normalizedPath, dir, parentExcluded) ==
    IF matchesPattern(pat, normalizedPath, dir)
    THEN IF pat.negated
         THEN IF ~parentExcluded THEN FALSE ELSE before
         ELSE TRUE
    ELSE before

\* decide with a matching negation never re-including the path
decide_NegationIgnored(before, pat, normalizedPath, dir, parentExcluded) ==
    IF matchesPattern(pat, normalizedPath, dir)
    THEN IF pat.negated THEN before ELSE TRUE
    ELSE before

\* one iteration of the Pass 2 loop of ignored: the local ignored after rule pat
decide(before, pat, normalizedPath, dir, parentExcluded) ==
    IF matchesPattern(pat, normalizedPath, dir)
    THEN IF pat.negated
         THEN IF ~parentExcluded /\ (pat.pattern # <<".">> \/ normalizedPath # <<".">>)
              THEN FALSE ELSE before
         ELSE TRUE
    ELSE before

\* Pass 2 of ignored: the value of the local ignored after the first k rules
RECURSIVE ignoredAfter(_, _, _, _, _)
ignoredAfter(pats, normalizedPath, dir, parentExcluded, k) ==
    IF k = 0 THEN FALSE
    ELSE decide(ignoredAfter(pats, normalizedPath, dir, parentExcluded, k - 1), pats[k],
                normalizedPath, dir, parentExcluded)

\* ignored: its return value with the locals it held; reached says whether the
\* call got past the early returns
NoTrace == [reached |-> FALSE, normalizedPath |-> <<>>, excludedDirs |-> {},
            parentExcluded |-> FALSE]

ignored(pats, path, dir) ==
    LET stripped == IF path = <<".", "/">> /\ dir THEN <<".">> ELSE stripDotSlash(path)
        normalizedPath == normalizePathForMatching(stripped)
        excludedDirs == findExcludedParentDirectories(pats, normalizedPath)
        parentExcluded == hasExcludedParentDirectory(normalizedPath, excludedDirs)
        scanned == ignoredAfter(pats, normalizedPath, dir, parentExcluded, Len(pats))
    IN  IF path = <<>> THEN [value |-> FALSE, locals |-> NoTrace]
        ELSE IF stripped = <<>> THEN [value |-> FALSE, locals |-> NoTrace]
        ELSE IF Len(pats) = 0 THEN [value |-> FALSE, locals |-> NoTrace]
        ELSE [value |-> IF parentExcluded /\ ~scanned THEN TRUE ELSE scanned,
              locals |-> [reached |-> TRUE, normalizedPath |-> normalizedPath,
                          excludedDirs |-> excludedDirs, parentExcluded |-> parentExcluded]]

-----------------------------------------------------------------------------
(* The inputs of the model.                                                *)

\* the rule lines of the rule lists New is given
RuleLines ==
    { <<"a">>, <<"!", "a">>, <<"a", "/">>, <<"/", "a">>,
      <<"b">>, <<"!", "b">>,
      <<"*">>, <<"!", "*">>, <<"!", ".">>,
      <<"a", "/", "b">>, <<"!", "a", "/", "b">>,
      <<"a", "/", "*", "*">> }

\* the bodies of the single rules whose matching is examined by itself
RuleBodies ==
    { <<"a">>, <<"b">>, <<".">>, <<"*">>, <<"?">>, <<"*", "*">>, <<"*", "a">>, <<"a", "*">>,
      <<".", "*">>,
      <<"a", "/", "b">>, <<"a", "/", "*">>, <<"*", "/", "a">>, <<"*", "*", "/", "a">>,
      <<"a", "/", "*", "*">>, <<"a", "/", "b", "/", "*", "*">>, <<"*", "/", "*", "*">>,
      <<"*", "*", "/", "a", "/", "*", "*">>, <<"a", "/", "*", "*", "/", "b">> }

\* a body with and without each marker: '!' and '/' in front, '/' behind
MatchLines ==
    {neg \o root \o body \o dir :
        neg \in {<<>>, <<"!">>}, root \in {<<>>, <<"/">>}, body \in RuleBodies,
        dir \in {<<>>, <<"/">>}}

\* the names of path components
Segments == {<<"a">>, <<"b">>}

RECURSIVE SegmentLists(_)
SegmentLists(n) ==
    IF n = 0 THEN {<<>>}
    ELSE LET shorter == SegmentLists(n - 1)
         IN  shorter \cup {Append(l, x) : l \in {m \in shorter : Len(m) = n - 1}, x \in Segments}

\* relative paths of 1..MaxDepth components
RelativePaths == {Join(l) : l \in SegmentLists(MaxDepth) \ {<<>>}}

\* the paths Ignored is asked about: relative paths, the root, and a
\* relative path behind "./", "/" and "//"
InputPaths ==
    RelativePaths
    \cup {<<".">>, <<".", "/">>}
    \cup {pre \o p : pre \in {<<".", "/">>, <<"/">>, <<"/", "/">>},
                     p \in {q \in RelativePaths : Len(q) <= 3}}

RECURSIVE LineLists(_)
LineLists(n) ==
    IF n = 0 THEN {<<>>}
    ELSE LET shorter == LineLists(n - 1)
         IN  shorter \cup {Append(l, x) : l \in {m \in shorter : Len(m) = n - 1}, x \in RuleLines}

-----------------------------------------------------------------------------
(* The state machine: New builds the evaluator, then Ignored is called.    *)
(* The evaluator is never written after New and ignored() reads nothing    *)
(* but its arguments and the rule list, so one call per behaviour shows    *)
(* every result a call can give.                                           *)

Init ==
    /\ lines \in LineLists(MaxRules)
    /\ patterns = New(lines)
    /\ called = FALSE
    /\ inputPath = <<>>
    /\ isDir = FALSE
    /\ trace = NoTrace
    /\ result = FALSE
    /\ returned = NoSlice
    /\ procs = NoProcs
    /\ wm = NoMatchCall

\* gi.Ignored(path, dir)
Ignored(path, dir) ==
    /\ LET r == ignored(patterns, path, dir)
       IN  /\ result' = r.value
           /\ trace' = r.locals
    /\ called' = TRUE
    /\ inputPath' = path
    /\ isDir' = dir
    /\ UNCHANGED <<lines, patterns, returned, procs, wm>>

\* one query of each evaluator: ignored reads nothing but its arguments and
\* the rule list
Next == \E path \in InputPaths, dir \in BOOLEAN : ~called /\ Ignored(path, dir)

Spec == Init /\ [][Next]_vars

\* the evaluator of one rule line
InitMatch ==
    /\ lines \in {<<l>> : l \in MatchLines}
    /\ patterns = New(lines)
    /\ called = FALSE
    /\ inputPath = <<>>
    /\ isDir = FALSE
    /\ trace = NoTrace
    /\ result = FALSE
    /\ returned = NoSlice
    /\ procs = NoProcs
    /\ wm = NoMatchCall

SpecMatch == InitMatch /\ [][Next]_vars

-----------------------------------------------------------------------------
(* What the claims speak of.                                               *)

\* the last Ignored call got past its early returns
Reached == called /\ trace.reached

\* the path after normalization
NormalizedPath == trace.normalizedPath

\* the directories strictly above p: its prefixes that end before a '/'
StrictAncestors(p) == {Upto(p, k - 1) : k \in {j \in 1..Len(p) : p[j] = "/"}}

\* the rule of pats that matches (p, d) last in input order is not a negation
LastMatchIsPositive(pats, p, d) ==
    \E i \in 1..Len(pats) :
        /\ matchesPattern(pats[i], p, d)
        /\ ~pats[i].negated
        /\ \A j \in (i + 1)..Len(pats) : ~matchesPattern(pats[j], p, d)

-----------------------------------------------------------------------------
(* C1 *)

\* C1: for a path other than "." none of whose strict ancestors is excluded,
\* Ignored is true exactly when the last rule in input order that matches the
\* path is not a negation; ["*", "!a"] gives false for "a" and ["!a", "*"]
\* gives true.
C1_LastMatchWins ==
    /\ (Reached /\ NormalizedPath # <<".">> /\ trace.excludedDirs = {})
        => (result = LastMatchIsPositive(patterns, NormalizedPath, isDir))
    /\ (called /\ lines = << <<"*">>, <<"!", "a">> >> /\ inputPath = <<"a">>) => ~result
    /\ (called /\ lines = << <<"!", "a">>, <<"*">> >> /\ inputPath = <<"a">>) => result

\* a later negation has re-included a path that an earlier rule ignores
C1_Witness ==
    /\ called /\ lines = << <<"*">>, <<"!", "a">> >>
    /\ inputPath = <<"a">> /\ ~isDir /\ ~result

-----------------------------------------------------------------------------
(* C2 *)

\* C2: when Pass 1 has excluded a strict ancestor of the normalized path,
\* Ignored is true whatever rules match the path itself; ["a/", "!a/b"]
\* ignores "a/b" and ["a/", "!b"] ignores "a/b".
C2_ExcludedAncestorWins ==
    /\ (Reached /\ StrictAncestors(NormalizedPath) \cap trace.excludedDirs # {}) => result
    /\ (called /\ lines = << <<"a", "/">>, <<"!", "a", "/", "b">> >>
            /\ inputPath = <<"a", "/", "b">>) => result
    /\ (called /\ lines = << <<"a", "/">>, <<"!", "b">> >>
            /\ inputPath = <<"a", "/", "b">>) => result

\* a negation matches the file itself and its parent is excluded
C2_Witness ==
    /\ called /\ lines = << <<"a", "/">>, <<"!", "a", "/", "b">> >>
    /\ inputPath = <<"a", "/", "b">> /\ ~isDir
    /\ matchesPattern(patterns[2], NormalizedPath, isDir)
    /\ <<"a">> \in trace.excludedDirs /\ result

-----------------------------------------------------------------------------
(* C3 *)

\* C3: when a directory strictly above the path is ignored, as a directory,
\* through a rule that is not a negation (the last rule that matches it),
\* the path is ignored, as a file and as a directory.
C3_AncestorMonotone ==
    Reached =>
        \A anc \in StrictAncestors(NormalizedPath) :
            (ignored(patterns, anc, TRUE).value /\ LastMatchIsPositive(patterns, anc, TRUE))
                => result

\* a path two levels below the root whose parent "a/b" is ignored by a rule
\* on "a/b", with a negation that matches the path itself
C3_Witness ==
    /\ Reached /\ NormalizedPath = <<"a", "/", "b", "/", "a">>
    /\ lines = << <<"a", "/", "b">>, <<"!", "a">> >>
    /\ ignored(patterns, <<"a", "/", "b">>, TRUE).value
    /\ LastMatchIsPositive(patterns, <<"a", "/", "b">>, TRUE)
    /\ matchesPattern(patterns[2], NormalizedPath, isDir)
    /\ result

-----------------------------------------------------------------------------
(* C4 *)

\* C4: a directory-only rule matches no path queried as a file, so a file is
\* ignored by a list whose positive rules are all directory-only only when
\* such a rule matches one of its strict ancestors; with ["a/"], "a" as a
\* file is not ignored, "a" and "b/a" as directories are.
C4_DirOnlyNeverMatchesFile ==
    /\ (Reached /\ ~isDir) =>
          /\ \A i \in 1..Len(patterns) :
                 patterns[i].dirOnly => ~matchesPattern(patterns[i], NormalizedPath, isDir)
          /\ (result /\ \A i \in 1..Len(patterns) : patterns[i].dirOnly \/ patterns[i].negated)
                 => \E anc \in StrictAncestors(NormalizedPath), i \in 1..Len(patterns) :
                        patterns[i].dirOnly /\ matchesPattern(patterns[i], anc, TRUE)
    /\ (called /\ lines = << <<"a", "/">> >> /\ inputPath = <<"a">>) => (result = isDir)
    /\ (called /\ lines = << <<"a", "/">> >> /\ inputPath = <<"b", "/", "a">>) => (result = isDir)

\* "a" is asked about as a file under the rule "a/" and is not ignored
C4_Witness ==
    /\ called /\ lines = << <<"a", "/">> >>
    /\ inputPath = <<"a">> /\ ~isDir /\ ~result
    /\ patterns[1].dirOnly

-----------------------------------------------------------------------------
(* C5 *)

\* the text of a rule body before its final "/**"
TextBeforeContents(pat) == TrimSuffix(pat.pattern, <<"/", "*", "*">>)

\* p lies strictly beneath a directory that the text before "/**" names
StrictlyBeneathBase(pat, p) ==
    \E anc \in StrictAncestors(p) :
        matchGlobPattern([pat EXCEPT !.pattern = TextBeforeContents(pat)], anc)

\* C5: a rule whose body ends in "/**" (the text before it not itself ending
\* in "**") matches exactly the relative paths strictly beneath the directory
\* that the text before "/**" names, and so never that directory itself.
C5_ContentsOnly ==
    (Reached /\ ~HasPrefix(NormalizedPath, <<"/">>)) =>
        \A i \in 1..Len(patterns) :
            (/\ HasSuffix(patterns[i].pattern, <<"/", "*", "*">>)
             /\ ~HasSuffix(TextBeforeContents(patterns[i]), <<"*", "*">>)
             /\ (patterns[i].dirOnly => isDir))
                => (matchesPattern(patterns[i], NormalizedPath, isDir)
                        = StrictlyBeneathBase(patterns[i], NormalizedPath))

-----------------------------------------------------------------------------
(* C6 *)

\* C6: a rule that is rooted or whose body holds a '/' matches a path only
\* when its body matches the whole normalized path, and a body without
\* wildcards only the path equal to it; "/a" matches "a" and not "b/a", and
\* "a/b" does not match "b/a/b".
C6_AnchoredRulesNotSlid ==
    /\ Reached =>
          \A i \in 1..Len(patterns) :
              (patterns[i].rooted \/ Contains(patterns[i].pattern, <<"/">>))
                  => /\ matchesPattern(patterns[i], NormalizedPath, isDir)
                            => matchGlobPattern(patterns[i], NormalizedPath)
                     /\ (matchesPattern(patterns[i], NormalizedPath, isDir)
                            /\ ~containsUnescapedWildcards(patterns[i].pattern))
                            => NormalizedPath = patterns[i].pattern
    /\ (called /\ lines = << <<"/", "a">> >> /\ inputPath = <<"a">>) => result
    /\ (called /\ lines = << <<"/", "a">> >> /\ inputPath = <<"b", "/", "a">>) => ~result
    /\ (called /\ lines = << <<"a", "/", "b">> >> /\ inputPath = <<"b", "/", "a", "/", "b">>)
          => ~result

\* the rooted rule "/a" is asked about "b/a", whose last component it would
\* match, and does not ignore it
C6_Witness ==
    /\ Reached /\ lines = << <<"/", "a">> >> /\ inputPath = <<"b", "/", "a">>
    /\ patterns[1].rooted
    /\ matchGlobPattern(patterns[1], Base(NormalizedPath))
    /\ ~result

-----------------------------------------------------------------------------
(* C7 *)

\* C7: a rule that is not rooted and whose body holds no '/' matches a path
\* exactly when it matches the last component of the path; "*a" matches
\* "b/b/a".
C7_SlashlessRulesMatchBasename ==
    /\ Reached =>
          \A i \in 1..Len(patterns) :
              (~patterns[i].rooted /\ ~Contains(patterns[i].pattern, <<"/">>))
                  => (matchesPattern(patterns[i], NormalizedPath, isDir)
                          = matchesPattern(patterns[i], Base(NormalizedPath), isDir))
    /\ (called /\ lines = << <<"*", "a">> >> /\ inputPath = <<"b", "/", "b", "/", "a">>)
          => result

\* "*a" is asked about "b/b/a", which it matches by the last component alone
C7_Witness ==
    /\ Reached /\ lines = << <<"*", "a">> >> /\ inputPath = <<"b", "/", "b", "/", "a">>
    /\ ~matchGlobPattern(patterns[1], NormalizedPath)
    /\ matchesPattern(patterns[1], NormalizedPath, isDir)
    /\ result

-----------------------------------------------------------------------------
(* C8 *)

\* the rules of pats but those whose line is exactly "!."
RECURSIVE WithoutBangDot(_)
WithoutBangDot(pats) ==
    IF pats = <<>> THEN <<>>
    ELSE (IF pats[1].original = <<"!", ".">> THEN <<>> ELSE <<pats[1]>>)
         \o WithoutBangDot(Tail(pats))

\* C8: for the path "." asked about as a directory, the result is the result
\* of the rule list with every rule "!." removed.
C8_RootImmunity ==
    (called /\ isDir /\ inputPath \in {<<".">>, <<".", "/">>})
        => (result = ignored(WithoutBangDot(patterns), inputPath, isDir).value)

\* "." is ignored through "*" although "!." follows and matches it
C8_Witness ==
    /\ Reached /\ lines = << <<"*">>, <<"!", ".">> >> /\ inputPath = <<".">> /\ isDir
    /\ matchesPattern(patterns[2], NormalizedPath, isDir)
    /\ result

-----------------------------------------------------------------------------
(* C9 *)

\* C9: when a rule that is not a negation matches the path ".", asked about
\* as a directory, Ignored is true, whatever negations follow.
C9_RootNeverRescued ==
    (Reached /\ NormalizedPath = <<".">> /\ isDir
        /\ \E i \in 1..Len(patterns) :
               ~patterns[i].negated /\ matchesPattern(patterns[i], NormalizedPath, isDir))
        => result

-----------------------------------------------------------------------------
(* C10 *)

\* C10: a path that begins with '/' after normalization is never ignored.
C10_AbsoluteNeverIgnored ==
    (Reached /\ HasPrefix(NormalizedPath, <<"/">>)) => ~result

-----------------------------------------------------------------------------
(* The rule lines and the paths that exercise the rule compiler.           *)

\* lines with the markers, escapes and trailing spaces parsePattern treats
CompileLines ==
    { <<>>, <<"#", "a">>, <<" ">>, <<"/">>,
      <<"a">>, <<"!", "a">>, <<"*">>,
      <<"\\", "#", "a", "\\", "#">>, <<"\\", "!", "a">>,
      <<"a", "\\", " ">>, <<"a", " ", " ">>, <<"a", "\\", "\\", " ">>,
      <<"a", "/">>, <<"/", "a">>, <<"a", "\\", "/">>,
      <<"[", "a">>, <<"a", "\\">> }

\* the paths asked about under those lines, the empty path among them
CompilePaths ==
    { <<>>, <<".", "/">>, <<".", "/", ".", "/">>, <<".">>,
      <<"a">>, <<"b">>, <<"#", "a", "#">>, <<"!", "a">>, <<"a", " ">>, <<"a", "\\">>,
      <<"[", "a">>, <<"b", "/", "a">>, <<"a", "/", "b">> }

RECURSIVE CompileLists(_)
CompileLists(n) ==
    IF n = 0 THEN {<<>>}
    ELSE LET shorter == CompileLists(n - 1)
         IN  shorter \cup {Append(l, x) : l \in {m \in shorter : Len(m) = n - 1}, x \in CompileLines}

InitCompile ==
    /\ lines \in CompileLists(MaxRules)
    /\ patterns = New(lines)
    /\ called = FALSE
    /\ inputPath = <<>>
    /\ isDir = FALSE
    /\ trace = NoTrace
    /\ result = FALSE
    /\ returned = NoSlice
    /\ procs = NoProcs
    /\ wm = NoMatchCall

NextCompile == \E path \in CompilePaths, dir \in BOOLEAN : ~called /\ Ignored(path, dir)

SpecCompile == InitCompile /\ [][NextCompile]_vars

-----------------------------------------------------------------------------
(* C11 *)

\* the path is empty once its leading "./" prefixes are stripped: the early
\* return inside the stripping loop ("./" asked about as a directory is not
\* stripped, it is evaluated as ".")
EmptyOnceStripped(path, dir) ==
    /\ ~(path = <<".", "/">> /\ dir)
    /\ path # <<>> /\ Len(path) % 2 = 0
    /\ \A i \in 1..Len(path) : path[i] = (IF i % 2 = 1 THEN "." ELSE "/")

\* C11: Ignored returns false for the empty path and for a path that is empty
\* once its leading "./" prefixes are stripped, whatever the rules; and with
\* no compiled rule it returns false for every path.
C11_EmptyNeverIgnored ==
    called =>
        /\ (inputPath = <<>> \/ EmptyOnceStripped(inputPath, isDir)) => ~result
        /\ patterns = <<>> => ~result

\* "././" is asked about as a directory under a rule that matches every name
\* and is not ignored
C11_Witness ==
    /\ called /\ lines = << <<"*">> >> /\ inputPath = <<".", "/", ".", "/">> /\ isDir
    /\ EmptyOnceStripped(inputPath, isDir)
    /\ ~result

-----------------------------------------------------------------------------
(* C12 *)

\* paths as a caller may write them: "./" in front, runs of '/', "." and
\* ".." components, a '/' behind, next to the paths they stand for
MessyPaths ==
    { <<"a">>, <<"b">>, <<"a", "/", "b">>, <<"b", "/", "a">>, <<"a", "/", "b", "/", "a">>,
      <<".">>, <<".", "/">>, <<".", "/", ".", "/">>, <<".", "/", ".">>, <<".", ".">>,
      <<".", "/", "a">>, <<".", "/", ".", "/", "a">>, <<".", "/", "/", "a">>,
      <<"a", "/", "/", "b">>, <<"a", "/", "/", "/", "b">>, <<"a", "/", ".", "/", "b">>,
      <<"a", "/", ".", ".", "/", "b">>, <<"a", "/", "b", "/", ".", ".">>,
      <<"a", "/", ".", ".">>, <<".", ".", "/", "a">>, <<"a", "/">>, <<"a", "/", "/">>,
      <<"b", "/", ".", "/", "a">>, <<"b", "/", ".", ".", "/", "a">>,
      <<".", "/", "a", "/", "/", "b", "/", ".", "/", "a">>,
      <<"a", "/", "b", "/", ".", ".", "/", "b", "/", "a">>,
      <<"/", "a", "/", ".", ".", "/", "b">>, <<"/", "/", "a">> }

NextPaths == \E path \in MessyPaths, dir \in BOOLEAN : ~called /\ Ignored(path, dir)

SpecPaths == Init /\ [][NextPaths]_vars

\* p with its leading "./" prefixes removed
RECURSIVE WithoutLeadingDotSlashes(_)
WithoutLeadingDotSlashes(p) ==
    IF Len(p) >= 2 /\ p[1] = "." /\ p[2] = "/" THEN WithoutLeadingDotSlashes(SubSeq(p, 3, Len(p)))
    ELSE p

\* p with every run of '/' made a single '/'
RECURSIVE SingleSlashes(_)
SingleSlashes(p) ==
    IF p = <<>> THEN <<>>
    ELSE IF Len(p) >= 2 /\ p[1] = "/" /\ p[2] = "/" THEN SingleSlashes(Tail(p))
    ELSE <<p[1]>> \o SingleSlashes(Tail(p))

\* the path q of the claim: the leading "./" prefixes removed, then the runs
\* of '/' collapsed and the "." and ".." components resolved; the empty path
\* stays empty
NormalForm(p) ==
    LET stripped == WithoutLeadingDotSlashes(p)
    IN  IF stripped = <<>> THEN <<>> ELSE Clean(SingleSlashes(stripped))

\* the claim as stated, for every path and either value of is_dir
C12_NormalFormSameResult_AsStated ==
    called => (result = ignored(patterns, NormalForm(inputPath), isDir).value)

\* C12: Ignored gives a path the result it gives the path with the leading
\* "./" prefixes removed, the runs of '/' collapsed and "." and ".." resolved,
\* but for "./" asked about as a directory, which is evaluated as "." and not
\* as the empty path; the normal form of a normal form is itself.
C12_NormalFormSameResult ==
    /\ (called /\ ~(inputPath = <<".", "/">> /\ isDir))
          => (result = ignored(patterns, NormalForm(inputPath), isDir).value)
    /\ called => NormalForm(NormalForm(inputPath)) = NormalForm(inputPath)
    /\ (Reached /\ ~(inputPath = <<".", "/">> /\ isDir)) => NormalizedPath = NormalForm(inputPath)
    /\ (called /\ inputPath \in { <<".", "/", "a", "/", "/", "b", "/", ".", "/", "a">>,
                                  <<"a", "/", "b", "/", ".", ".", "/", "b", "/", "a">> })
          => (result = ignored(patterns, <<"a", "/", "b", "/", "a">>, isDir).value)

\* "a/./b" is ignored through the rule "a/b", which matches its normal form
\* and not its text
C12_Witness ==
    /\ Reached /\ lines = << <<"a", "/", "b">> >> /\ inputPath = <<"a", "/", ".", "/", "b">>
    /\ NormalForm(inputPath) = <<"a", "/", "b">> /\ NormalForm(inputPath) # inputPath
    /\ ~matchGlobPattern(patterns[1], inputPath)
    /\ result

-----------------------------------------------------------------------------
(* An evaluator that is asked again and again: Ignored and Patterns in any *)
(* order, the caller writing into the slices Patterns gave it.             *)

\* lines that compile to nothing next to lines that compile to a rule
QueryLines ==
    { <<>>, <<"#", "a">>, <<" ">>, <<"/">>, <<"[", "a">>, <<"!">>,
      <<"a">>, <<"!", "a">>, <<"*">>, <<"a", "/">> }

QueryPaths == { <<"a">>, <<"b">>, <<"b", "/", "a">> }

RECURSIVE QueryLists(_)
QueryLists(n) ==
    IF n = 0 THEN {<<>>}
    ELSE LET shorter == QueryLists(n - 1)
         IN  shorter \cup {Append(l, x) : l \in {m \in shorter : Len(m) = n - 1}, x \in QueryLines}

InitQueries ==
    /\ lines \in QueryLists(MaxRules)
    /\ patterns = New(lines)
    /\ called = FALSE
    /\ inputPath = <<>>
    /\ isDir = FALSE
    /\ trace = NoTrace
    /\ result = FALSE
    /\ returned = NoSlice
    /\ procs = NoProcs
    /\ wm = NoMatchCall

\* gi.Patterns()
CallPatterns ==
    /\ returned' = patternsSlice(patterns)
    /\ UNCHANGED <<lines, patterns, called, inputPath, isDir, trace, result, procs, wm>>

\* the caller stores a string of its own into element i of the slice it holds;
\* the store reaches the rule list only if the slice shares its storage
Overwrite(i) ==
    /\ returned # NoSlice
    /\ i \in 1..Len(returned.elems)
    /\ returned' = [returned EXCEPT !.elems[i] = <<"x">>, !.written = TRUE]
    /\ patterns' = IF returned.aliased THEN [patterns EXCEPT ![i].original = <<"x">>]
                   ELSE patterns
    /\ UNCHANGED <<lines, called, inputPath, isDir, trace, result, procs, wm>>

NextQueries ==
    \/ \E path \in QueryPaths, dir \in BOOLEAN : Ignored(path, dir)
    \/ CallPatterns
    \/ \E i \in 1..MaxRules : Overwrite(i)

SpecQueries == InitQueries /\ [][NextQueries]_vars

-----------------------------------------------------------------------------
(* C13 *)

\* the text of a line behind a leading '!'
BehindBang(l) == IF l # <<>> /\ l[1] = "!" THEN Tail(l) ELSE l

\* the lines the claim lists as compiling to nothing: the empty line, a
\* comment, a line with nothing but spaces behind its marker, the line "/",
\* a line with a '[' that no ']' follows
CompilesToNothing(l) ==
    \/ l = <<>>
    \/ l[1] = "#"
    \/ \A i \in 1..Len(BehindBang(l)) : BehindBang(l)[i] = " "
    \/ BehindBang(l) = <<"/">>
    \/ \E i \in 1..Len(l) : l[i] = "[" /\ \A j \in (i + 1)..Len(l) : l[j] # "]"

\* the lines of ls that compile, in input order
RECURSIVE KeptLines(_)
KeptLines(ls) ==
    IF ls = <<>> THEN <<>>
    ELSE (IF CompilesToNothing(ls[1]) THEN <<>> ELSE <<ls[1]>>) \o KeptLines(Tail(ls))

-----------------------------------------------------------------------------
(* C14 *)

\* C14: a line that starts with "\#" or "\!" compiles to a rule that is no
\* negation and whose body starts with '#' or '!'; a line that starts with
\* '!' compiles to a negation whose body is taken from the text behind the
\* '!'. "\#a\#" ignores "#a#"; "\!a" ignores "!a" and does not re-include "a".
C14_EscapedMarkersAreLiteral ==
    /\ \A i \in 1..Len(patterns) :
           LET pat == patterns[i]
           IN  /\ (HasPrefix(pat.original, <<"\\", "#">>) \/ HasPrefix(pat.original, <<"\\", "!">>))
                      => (~pat.negated /\ pat.pattern[1] = pat.original[2])
               /\ pat.negated = (pat.original[1] = "!")
               /\ pat.negated => HasPrefix(Tail(pat.original), pat.pattern)
    /\ (called /\ lines = << <<"\\", "#", "a", "\\", "#">> >> /\ inputPath = <<"#", "a", "#">>)
           => result
    /\ (called /\ lines = << <<"\\", "!", "a">> >> /\ inputPath = <<"!", "a">>) => result
    /\ (called /\ lines = << <<"a">>, <<"\\", "!", "a">> >> /\ inputPath = <<"a">>) => result
    /\ (called /\ lines = << <<"a">>, <<"!", "a">> >> /\ inputPath = <<"a">>) => ~result

\* "a" stays ignored through the rule "a" although the line "\!a" follows
C14_Witness ==
    /\ called /\ lines = << <<"a">>, <<"\\", "!", "a">> >> /\ inputPath = <<"a">>
    /\ ~patterns[2].negated /\ patterns[2].pattern = <<"!", "a">>
    /\ result

-----------------------------------------------------------------------------
(* C15 *)

\* the number of consecutive backslashes that end right before position i
RECURSIVE BackslashRun(_, _)
BackslashRun(l, i) == IF i >= 2 /\ l[i - 1] = "\\" THEN 1 + BackslashRun(l, i - 1) ELSE 0

\* l without its unescaped trailing spaces: spaces go one by one until the
\* last byte is no space or is a space behind an odd run of backslashes
RECURSIVE WithoutUnescapedTrailingSpaces(_)
WithoutUnescapedTrailingSpaces(l) ==
    IF l # <<>> /\ l[Len(l)] = " " /\ BackslashRun(l, Len(l)) % 2 = 0
    THEN WithoutUnescapedTrailingSpaces(SubSeq(l, 1, Len(l) - 1))
    ELSE l

\* every backslash-space pair of l made one space, left to right
RECURSIVE PairsToSpaces(_)
PairsToSpaces(l) ==
    IF l = <<>> THEN <<>>
    ELSE IF Len(l) >= 2 /\ l[1] = "\\" /\ l[2] = " " THEN <<" ">> \o PairsToSpaces(SubSeq(l, 3, Len(l)))
    ELSE <<l[1]>> \o PairsToSpaces(Tail(l))

\* the rule list is the single line l and the path asked about is p
Asked(l, p) == called /\ lines = <<l>> /\ inputPath = p

\* C15: trimming a line removes its trailing spaces up to the first that an
\* odd run of backslashes escapes and then makes every backslash-space pair a
\* space. "a\ " matches "a " and not "a", "a  " matches "a", the space of
\* "a\\ " is trimmed, and a line of spaces compiles to nothing.
C15_TrailingSpaces ==
    /\ \A i \in 1..Len(lines) :
           trimTrailingUnescapedSpaces(lines[i])
               = PairsToSpaces(WithoutUnescapedTrailingSpaces(lines[i]))
    /\ Asked(<<"a", "\\", " ">>, <<"a", " ">>) => result
    /\ Asked(<<"a", "\\", " ">>, <<"a">>) => ~result
    /\ Asked(<<"a", " ", " ">>, <<"a">>) => result
    /\ Asked(<<"a", " ", " ">>, <<"a", " ">>) => ~result
    /\ Asked(<<"a", "\\", "\\", " ">>, <<"a", "\\">>) => result
    /\ lines = << <<" ">> >> => patterns = <<>>

\* "a " is ignored through the line "a\ ", whose escaped space is kept
C15_Witness ==
    /\ Asked(<<"a", "\\", " ">>, <<"a", " ">>)
    /\ patterns[1].pattern = <<"a", " ">>
    /\ result

-----------------------------------------------------------------------------
(* C16 *)

\* the text of a line behind its marker, trimmed: what the '/' markers are
\* looked for in
TrimmedText(l) ==
    LET behind == IF HasPrefix(l, <<"!">>) \/ HasPrefix(l, <<"\\", "!">>)
                     \/ HasPrefix(l, <<"\\", "#">>) THEN Tail(l) ELSE l
    IN  PairsToSpaces(WithoutUnescapedTrailingSpaces(behind))

\* l ends with a '/' that no odd run of backslashes escapes
EndsWithUnescapedSlash(l) ==
    l # <<>> /\ l[Len(l)] = "/" /\ BackslashRun(l, Len(l)) % 2 = 0

\* C16: a compiled rule is directory-only exactly when its trimmed line ends
\* with an unescaped '/' and rooted exactly when what remains begins with
\* '/'; each marker is stripped once, and the line "/" compiles to nothing.
\* The '/' of "a\/" is escaped and sets no directory-only flag.
C16_SlashMarkers ==
    /\ \A i \in 1..Len(patterns) :
           LET pat == patterns[i]
               text == TrimmedText(pat.original)
               rest == IF EndsWithUnescapedSlash(text) THEN SubSeq(text, 1, Len(text) - 1) ELSE text
           IN  /\ pat.dirOnly = EndsWithUnescapedSlash(text)
               /\ pat.rooted = (rest # <<>> /\ rest[1] = "/")
               /\ pat.pattern = (IF pat.rooted THEN Tail(rest) ELSE rest)
    /\ lines = << <<"/">> >> => patterns = <<>>

-----------------------------------------------------------------------------
(* C17 *)

\* the text of l has a '[' that no ']' follows, or ends in a backslash that
\* escapes nothing
BrokenLine(l) ==
    \/ \E i \in 1..Len(l) : l[i] = "[" /\ \A j \in (i + 1)..Len(l) : l[j] # "]"
    \/ l # <<>> /\ l[Len(l)] = "\\" /\ BackslashRun(l, Len(l)) % 2 = 0

\* ls without its i-th line
WithoutLine(ls, i) == SubSeq(ls, 1, i - 1) \o SubSeq(ls, i + 1, Len(ls))

\* C17: a rule with an unterminated character class or a trailing backslash
\* matches no path, so for every path the result of a rule list that holds
\* such a rule is the result of the list without it.
C17_BrokenRulesInert ==
    called =>
        \A i \in 1..Len(lines) :
            BrokenLine(lines[i])
                => result = ignored(New(WithoutLine(lines, i)), inputPath, isDir).value

-----------------------------------------------------------------------------
(* C18 *)

-----------------------------------------------------------------------------
(* Concurrent queries: goroutines calling Ignored on one shared GitIgnore, *)
(* each call cut into its steps: the early returns and the normalization,  *)
(* one step per rule of the loop of findExcludedParentDirectories, one     *)
(* step per rule of the Pass 2 loop, and the return.                       *)

Goroutines == {"g1", "g2"}

ConcurrentLines == { <<"a">>, <<"!", "a">>, <<"*">> }

ConcurrentPaths == { <<"a", "/", "b">>, <<"b", "/", "a">>, <<".", "/">> }

RECURSIVE ConcurrentLists(_)
ConcurrentLists(n) ==
    IF n = 0 THEN {<<>>}
    ELSE ConcurrentLists(n - 1)
         \cup {Append(l, x) : l \in {m \in ConcurrentLists(n - 1) : Len(m) = n - 1},
                              x \in ConcurrentLines}

\* a goroutine that has not called Ignored yet
Idle == [pc |-> "idle", path |-> <<>>, dir |-> FALSE, normalizedPath |-> <<>>,
         excludedDirs |-> {}, next |-> 0, parentExcluded |-> FALSE, ignored |-> FALSE]

InitConcurrent ==
    /\ lines \in ConcurrentLists(MaxRules)
    /\ patterns = New(lines)
    /\ procs = [g \in Goroutines |-> Idle]
    /\ called = FALSE
    /\ inputPath = <<>>
    /\ isDir = FALSE
    /\ trace = NoTrace
    /\ result = FALSE
    /\ returned = NoSlice
    /\ wm = NoMatchCall

\* the excluded-directory map of goroutine self read by a map of all calls
excludedDirsOf_Shared(ps, self) == UNION {ps[g].excludedDirs : g \in DOMAIN ps}

\* the excluded-directory map the call of goroutine self works on: the one
\* its own findExcludedParentDirectories made
excludedDirsOf(ps, self) == ps[self].excludedDirs

\* goroutine self enters ignored(path, dir): the early returns, the
\* normalization, and the fresh map of findExcludedParentDirectories
Enter(self, path, dir) ==
    /\ procs[self].pc = "idle"
    /\ LET stripped == IF path = <<".", "/">> /\ dir THEN <<".">> ELSE stripDotSlash(path)
       IN  procs' = [procs EXCEPT ![self] =
                IF path = <<>> \/ stripped = <<>> \/ Len(patterns) = 0
                THEN [Idle EXCEPT !.pc = "done", !.path = path, !.dir = dir]
                ELSE [Idle EXCEPT !.pc = "pass1", !.path = path, !.dir = dir,
                                  !.normalizedPath = normalizePathForMatching(stripped),
                                  !.next = 1]]
    /\ UNCHANGED <<lines, patterns, called, inputPath, isDir, trace, result, returned, wm>>

\* one iteration of the loop over g.patterns in findExcludedParentDirectories,
\* or, the rules exhausted, its return and the call of hasExcludedParentDirectory
FindExcluded(self) ==
    /\ procs[self].pc = "pass1"
    /\ LET me == procs[self]
       IN  procs' = [procs EXCEPT ![self] =
                IF me.next <= Len(patterns)
                THEN [me EXCEPT !.excludedDirs =
                                    excludeStep(excludedDirsOf(procs, self), patterns[me.next],
                                                pathsToCheck(me.normalizedPath), me.normalizedPath),
                                !.next = me.next + 1]
                ELSE [me EXCEPT !.pc = "pass2",
                                !.parentExcluded =
                                    hasExcludedParentDirectory(me.normalizedPath,
                                                               excludedDirsOf(procs, self)),
                                !.next = 1]]
    /\ UNCHANGED <<lines, patterns, called, inputPath, isDir, trace, result, returned, wm>>

\* one iteration of the Pass 2 loop of ignored, or, the rules exhausted, the
\* final parent exclusion check and the return
Decide(self) ==
    /\ procs[self].pc = "pass2"
    /\ LET me == procs[self]
       IN  procs' = [procs EXCEPT ![self] =
                IF me.next <= Len(patterns)
                THEN [me EXCEPT !.ignored = decide(me.ignored, patterns[me.next],
                                                   me.normalizedPath, me.dir, me.parentExcluded),
                                !.next = me.next + 1]
                ELSE [me EXCEPT !.pc = "done",
                                !.ignored = IF me.parentExcluded /\ ~me.ignored
                                            THEN TRUE ELSE me.ignored]]
    /\ UNCHANGED <<lines, patterns, called, inputPath, isDir, trace, result, returned, wm>>

NextConcurrent ==
    \E self \in Goroutines :
        \/ \E path \in ConcurrentPaths, dir \in BOOLEAN : Enter(self, path, dir)
        \/ FindExcluded(self)
        \/ Decide(self)

SpecConcurrent == InitConcurrent /\ [][NextConcurrent]_vars

(* C19 *)

\* C19: in every interleaving of the steps of concurrent Ignored calls on one
\* shared GitIgnore, a call that has returned has returned the value the same
\* call returns when it runs alone, and the shared rule list is the one New
\* built.
C19_InterleavingsAgree ==
    /\ patterns = New(lines)
    /\ \A g \in DOMAIN procs :
           procs[g].pc = "done"
               => procs[g].ignored = ignored(patterns, procs[g].path, procs[g].dir).value

\* g2 has returned false for "a/b" under the rules "a", "!a" while g1, asked
\* the same, is between the two rules and holds "a" in its own map
C19_Witness ==
    /\ lines = << <<"a">>, <<"!", "a">> >>
    /\ procs # NoProcs
    /\ procs["g1"].pc = "pass1" /\ procs["g1"].next = 2
    /\ procs["g1"].path = <<"a", "/", "b">> /\ procs["g1"].excludedDirs = {<<"a">>}
    /\ procs["g2"].pc = "done" /\ procs["g2"].path = <<"a", "/", "b">> /\ ~procs["g2"].ignored

-----------------------------------------------------------------------------
(* Package wildmatch.  Patterns and texts are byte slices; the indices pi   *)
(* and ti count from 0 as in the source.                                    *)

wmMatch == 0
wmNoMatch == 1
wmAbortAll == -1
wmAbortToStarstar == -2

wmCaseFold == 1
wmPathname == 2

\* flags&bit != 0
HasFlag(flags, bit) == (flags \div bit) % 2 = 1

\* s[i] of the source
At(s, i) == s[i + 1]

\* byte(0), the initial value of tCh and prevCh
NUL == "NUL"

\* the printable ASCII bytes 0x20..0x7E in order; the two quotes and the
\* backquote are written by their codes
AsciiTable ==
    << " ", "!", "0x22", "#", "$", "%", "&", "0x27", "(", ")", "*", "+", ",", "-", ".", "/",
       "0", "1", "2", "3", "4", "5", "6", "7", "8", "9", ":", ";", "<", "=", ">", "?",
       "@", "A", "B", "C", "D", "E", "F", "G", "H", "I", "J", "K", "L", "M", "N", "O",
       "P", "Q", "R", "S", "T", "U", "V", "W", "X", "Y", "Z", "[", "\\", "]", "^", "_",
       "0x60", "a", "b", "c", "d", "e", "f", "g", "h", "i", "j", "k", "l", "m", "n", "o",
       "p", "q", "r", "s", "t", "u", "v", "w", "x", "y", "z", "{", "|", "}", "~" >>

\* the numeric value of a byte
Code(b) == IF b = NUL THEN 0 ELSE 31 + (CHOOSE i \in 1..Len(AsciiTable) : AsciiTable[i] = b)

\* the byte with a numeric value
Chr(n) == AsciiTable[n - 31]

asciiLowerDelta == Code("a") - Code("A")

asciiIsUpper(b) == Code(b) >= Code("A") /\ Code(b) <= Code("Z")

asciiIsLower(b) == Code(b) >= Code("a") /\ Code(b) <= Code("z")

asciiToLower(b) == IF asciiIsUpper(b) THEN Chr(Code(b) + asciiLowerDelta) ELSE b

asciiIsDigit(b) == Code(b) >= Code("0") /\ Code(b) <= Code("9")

asciiIsAlpha(b) == asciiIsUpper(b) \/ asciiIsLower(b)

asciiIsAlnum(b) == asciiIsAlpha(b) \/ asciiIsDigit(b)

\* of the printable bytes only the space is a blank
asciiIsSpace(b) == b = " "

asciiIsPrint(b) == Code(b) >= Code(" ") /\ Code(b) <= Code("~")

asciiIsGraph(b) == asciiIsPrint(b) /\ ~asciiIsSpace(b)

\* no printable byte is a control character
asciiIsCntrl(b) == Code(b) < Code(" ")

asciiIsPunct(b) == asciiIsPrint(b) /\ ~asciiIsAlnum(b) /\ ~asciiIsSpace(b)

asciiIsXDigit(b) ==
    \/ asciiIsDigit(b)
    \/ Code(b) >= Code("a") /\ Code(b) <= Code("f")
    \/ Code(b) >= Code("A") /\ Code(b) <= Code("F")

foldASCII(b, flags) ==
    IF HasFlag(flags, wmCaseFold) /\ asciiIsUpper(b) THEN asciiToLower(b) ELSE b

isGlobSpecial(c) == c = "*" \/ c = "?" \/ c = "[" \/ c = "\\"

\* the loop that skips all consecutive '*': the index after the run
RECURSIVE skipStars(_, _)
skipStars(pattern, pi) ==
    IF pi < Len(pattern) /\ At(pattern, pi) = "*" THEN skipStars(pattern, pi + 1) ELSE pi

\* specialPosition that looks only at what stands before the run
specialPosition_LeadingOnly(pattern, prevP, pi) == prevP < 2 \/ At(pattern, prevP - 2) = "/"

\* specialPosition with every run of stars taken as special
specialPosition_Always(pattern, prevP, pi) == TRUE

\* Git's '**' special detection: prevP indexes the second '*' of the run and
\* pi the byte after the run
specialPosition(pattern, prevP, pi) ==
    /\ prevP < 2 \/ At(pattern, prevP - 2) = "/"
    /\ \/ pi >= Len(pattern)
       \/ At(pattern, pi) = "/"
       \/ pi + 1 < Len(pattern) /\ At(pattern, pi) = "\\" /\ At(pattern, pi + 1) = "/"

\* the loop of the special case '*' followed by '/': the text advanced to
\* the next '/', if any
RECURSIVE nextSlash(_, _)
nextSlash(text, ti) ==
    IF ti < Len(text) /\ At(text, ti) # "/" THEN nextSlash(text, ti + 1) ELSE ti

\* scanLiteral with the loop going on over a '/' the star may not match
RECURSIVE scanLiteral_IgnoresSlash(_, _, _, _, _)
scanLiteral_IgnoresSlash(text, pos, lit, matchSlash, flags) ==
    IF pos < Len(text)
    THEN IF foldASCII(At(text, pos), flags) = lit THEN pos
         ELSE scanLiteral_IgnoresSlash(text, pos + 1, lit, matchSlash, flags)
    ELSE pos

\* the loop of the fast-forward: the first pos from ti on at which the text
\* ends, or holds a '/' that the star may not match, or holds the literal
RECURSIVE scanLiteral(_, _, _, _, _)
scanLiteral(text, pos, lit, matchSlash, flags) ==
    IF pos < Len(text) /\ (matchSlash \/ At(text, pos) # "/")
    THEN IF foldASCII(At(text, pos), flags) = lit THEN pos
         ELSE scanLiteral(text, pos + 1, lit, matchSlash, flags)
    ELSE pos

\* the fast-forward when the token after the star run is a literal: the code
\* it returns, or the text index the main loop of the star starts at
forwardScan(pattern, text, pi, ti, flags, matchSlash) ==
    IF pi < Len(pattern) /\ ~isGlobSpecial(At(pattern, pi))
    THEN LET lit == foldASCII(At(pattern, pi), flags)
             pos == scanLiteral(text, ti, lit, matchSlash, flags)
         IN  IF pos >= Len(text) \/ (~matchSlash /\ pos < Len(text) /\ At(text, pos) = "/")
             THEN [returns |-> TRUE, code |-> IF matchSlash THEN wmAbortAll ELSE wmAbortToStarstar,
                   ti |-> ti]
             ELSE [returns |-> FALSE, code |-> wmMatch, ti |-> pos]
    ELSE [returns |-> FALSE, code |-> wmMatch, ti |-> ti]

\* the names of the POSIX classes
PosixNames ==
    { <<"a", "l", "n", "u", "m">>, <<"a", "l", "p", "h", "a">>, <<"b", "l", "a", "n", "k">>,
      <<"c", "n", "t", "r", "l">>, <<"d", "i", "g", "i", "t">>, <<"g", "r", "a", "p", "h">>,
      <<"l", "o", "w", "e", "r">>, <<"p", "r", "i", "n", "t">>, <<"p", "u", "n", "c", "t">>,
      <<"s", "p", "a", "c", "e">>, <<"u", "p", "p", "e", "r">>,
      <<"x", "d", "i", "g", "i", "t">> }

\* the switch over the name of a POSIX class: whether the text byte b is a
\* member of the class
posixMember(name, b, flags) ==
    CASE name = <<"a", "l", "n", "u", "m">> -> asciiIsAlnum(b)
      [] name = <<"a", "l", "p", "h", "a">> -> asciiIsAlpha(b)
      [] name = <<"b", "l", "a", "n", "k">> -> asciiIsSpace(b)
      [] name = <<"c", "n", "t", "r", "l">> -> asciiIsCntrl(b)
      [] name = <<"d", "i", "g", "i", "t">> -> asciiIsDigit(b)
      [] name = <<"g", "r", "a", "p", "h">> -> asciiIsGraph(b)
      [] name = <<"l", "o", "w", "e", "r">> -> asciiIsLower(b)
      [] name = <<"p", "r", "i", "n", "t">> -> asciiIsPrint(b)
      [] name = <<"p", "u", "n", "c", "t">> -> asciiIsPunct(b)
      [] name = <<"s", "p", "a", "c", "e">> -> b = " "
      [] name = <<"u", "p", "p", "e", "r">> ->
            asciiIsUpper(b) \/ (HasFlag(flags, wmCaseFold) /\ asciiIsLower(b))
      [] name = <<"x", "d", "i", "g", "i", "t">> -> asciiIsXDigit(b)
      [] OTHER -> FALSE

\* the loop that finds the ']' ending a POSIX class token
RECURSIVE classEnd(_, _)
classEnd(pattern, classEndIndex) ==
    IF classEndIndex < Len(pattern) /\ At(pattern, classEndIndex) # "]"
    THEN classEnd(pattern, classEndIndex + 1) ELSE classEndIndex

\* the range case of the class loop, pi at the '-'
classRange(pattern, text, pi, ti, flags, tCh, matched, prevCh) ==
    LET escapedEnd == At(pattern, pi + 1) = "\\"
        endIdx == IF escapedEnd THEN pi + 2 ELSE pi + 1
        endCh == At(pattern, endIdx)
        start == foldASCII(prevCh, flags)
        stop == foldASCII(endCh, flags)
        inRange == Code(tCh) >= Code(start) /\ Code(tCh) <= Code(stop)
        tUpper == Code(At(text, ti)) - asciiLowerDelta
        upperInRange == /\ HasFlag(flags, wmCaseFold) /\ asciiIsLower(At(text, ti))
                        /\ tUpper >= Code(prevCh) /\ tUpper <= Code(endCh)
    IN  IF escapedEnd /\ endIdx >= Len(pattern)
        THEN [abort |-> TRUE, pi |-> endIdx, matched |-> matched, prevCh |-> prevCh]
        ELSE [abort |-> FALSE, pi |-> endIdx + 1,
              matched |-> matched \/ inRange \/ upperInRange, prevCh |-> NUL]

\* the POSIX class case of the class loop, pi at the inner '['
classPosix(pattern, text, pi, ti, flags, tCh, matched, prevCh) ==
    LET startIndex == pi + 2
        classEndIndex == classEnd(pattern, startIndex)
        name == SubSeq(pattern, startIndex + 1, classEndIndex - 1)
    IN  IF classEndIndex >= Len(pattern)
        THEN [abort |-> TRUE, pi |-> pi, matched |-> matched, prevCh |-> prevCh]
        ELSE IF classEndIndex - 1 <= startIndex \/ At(pattern, classEndIndex - 1) # ":"
        THEN [abort |-> FALSE, pi |-> pi + 1,
              matched |-> matched \/ tCh = foldASCII("[", flags), prevCh |-> prevCh]
        ELSE IF name \notin PosixNames
        THEN [abort |-> TRUE, pi |-> pi, matched |-> matched, prevCh |-> prevCh]
        ELSE [abort |-> FALSE, pi |-> classEndIndex + 1,
              matched |-> matched \/ posixMember(name, At(text, ti), flags), prevCh |-> NUL]

\* one iteration of the class loop, pi at a byte that is not the closing ']'
classStep(pattern, text, pi, ti, flags, tCh, matched, prevCh) ==
    LET pCh == At(pattern, pi)
    IN  CASE pCh = "\\" ->
                IF pi + 1 >= Len(pattern)
                THEN [abort |-> TRUE, pi |-> pi + 1, matched |-> matched, prevCh |-> prevCh]
                ELSE [abort |-> FALSE, pi |-> pi + 2,
                      matched |-> matched \/ tCh = foldASCII(At(pattern, pi + 1), flags),
                      prevCh |-> At(pattern, pi + 1)]
          [] pCh = "-" /\ prevCh # NUL /\ pi + 1 < Len(pattern) /\ At(pattern, pi + 1) # "]" ->
                classRange(pattern, text, pi, ti, flags, tCh, matched, prevCh)
          [] pCh = "[" /\ pi + 1 < Len(pattern) /\ At(pattern, pi + 1) = ":" ->
                classPosix(pattern, text, pi, ti, flags, tCh, matched, prevCh)
          [] OTHER ->
                [abort |-> FALSE, pi |-> pi + 1,
                 matched |-> matched \/ tCh = foldASCII(pCh, flags), prevCh |-> pCh]

\* the class loop: the pattern index it stops at and whether a member matched
RECURSIVE classMembers(_, _, _, _, _, _, _, _)
classMembers(pattern, text, pi, ti, flags, tCh, matched, prevCh) ==
    IF pi < Len(pattern) /\ At(pattern, pi) # "]"
    THEN LET step == classStep(pattern, text, pi, ti, flags, tCh, matched, prevCh)
         IN  IF step.abort THEN step
             ELSE classMembers(pattern, text, step.pi, ti, flags, tCh, step.matched, step.prevCh)
    ELSE [abort |-> FALSE, pi |-> pi, matched |-> matched, prevCh |-> prevCh]

RECURSIVE dowild(_, _, _, _, _)
RECURSIVE starLoop(_, _, _, _, _, _)

\* starLoop with AbortToStarstar returned from under a '**' as well, the
\* loop not advancing to retry
RECURSIVE starLoop_NoRetry(_, _, _, _, _, _)
starLoop_NoRetry(pattern, text, pi, ti, flags, matchSlash) ==
    IF ti < Len(text)
    THEN LET res == dowild(pattern, text, pi, ti, flags)
         IN  IF res # wmNoMatch THEN res
             ELSE IF ~matchSlash /\ At(text, ti) = "/" THEN wmAbortToStarstar
                  ELSE starLoop_NoRetry(pattern, text, pi, ti + 1, flags, matchSlash)
    ELSE wmAbortAll

\* the main '*' matching loop
starLoop(pattern, text, pi, ti, flags, matchSlash) ==
    IF ti < Len(text)
    THEN LET res == dowild(pattern, text, pi, ti, flags)
         IN  IF res # wmNoMatch
             THEN IF ~matchSlash \/ res # wmAbortToStarstar THEN res
                  ELSE starLoop(pattern, text, pi, ti + 1, flags, matchSlash)
             ELSE IF ~matchSlash /\ At(text, ti) = "/" THEN wmAbortToStarstar
                  ELSE starLoop(pattern, text, pi, ti + 1, flags, matchSlash)
    ELSE wmAbortAll

\* zeroWidthMatch with the zero-width match never tried
zeroWidthMatch_Never(pattern, text, pi, ti, flags) == FALSE

\* the special case of a '**' in special position before '/': the rest of
\* the pattern behind that '/' matches the text from ti, the run and the '/'
\* matching nothing
zeroWidthMatch(pattern, text, pi, ti, flags) ==
    /\ pi < Len(pattern) /\ At(pattern, pi) = "/"
    /\ dowild(pattern, text, pi + 1, ti, flags) = wmMatch

\* case '*' of dowild, pi at the first star
dowildStar(pattern, text, pi, ti, flags) ==
    LET isRun == pi + 1 < Len(pattern) /\ At(pattern, pi + 1) = "*"
        prevP == pi + 1
        after == IF isRun THEN skipStars(pattern, pi + 1) ELSE pi + 1
        special == isRun /\ HasFlag(flags, wmPathname) /\ specialPosition(pattern, prevP, after)
        zeroWidth == special /\ zeroWidthMatch(pattern, text, after, ti, flags)
        matchSlash == IF isRun THEN ~HasFlag(flags, wmPathname) \/ special
                      ELSE ~HasFlag(flags, wmPathname)
        scan == forwardScan(pattern, text, after, ti, flags, matchSlash)
    IN  IF zeroWidth THEN wmMatch
        ELSE IF after >= Len(pattern)
        THEN IF ~matchSlash /\ \E i \in ti..(Len(text) - 1) : At(text, i) = "/"
             THEN wmAbortToStarstar ELSE wmMatch
        ELSE IF ~matchSlash /\ At(pattern, after) = "/"
        THEN IF nextSlash(text, ti) >= Len(text) THEN wmAbortAll
             ELSE dowild(pattern, text, after, nextSlash(text, ti), flags)
        ELSE IF scan.returns THEN scan.code
        ELSE starLoop(pattern, text, after, scan.ti, flags, matchSlash)

\* classNegated with '!' as the only negation mark
classNegated_BangOnly(pattern, pi) == At(pattern, pi) = "!"

\* the check for negation: '!' or '^' after the opening '['
classNegated(pattern, pi) == At(pattern, pi) = "!" \/ At(pattern, pi) = "^"

\* case '[' of dowild, pi at the opening bracket
dowildClass(pattern, text, pi, ti, flags, tCh) ==
    LET negated == classNegated(pattern, pi + 1)
        first == IF negated THEN pi + 2 ELSE pi + 1
        leading == first < Len(pattern) /\ At(pattern, first) = "]"
        scan == classMembers(pattern, text, IF leading THEN first + 1 ELSE first, ti, flags, tCh,
                             leading /\ tCh = "]", IF leading THEN "]" ELSE NUL)
    IN  IF ti >= Len(text) THEN wmNoMatch
        ELSE IF pi + 1 >= Len(pattern) THEN wmAbortAll
        ELSE IF scan.abort THEN wmAbortAll
        ELSE IF scan.pi >= Len(pattern) \/ At(pattern, scan.pi) # "]" THEN wmAbortAll
        ELSE IF scan.matched = negated THEN wmNoMatch
        ELSE IF HasFlag(flags, wmPathname) /\ At(text, ti) = "/" THEN wmNoMatch
        ELSE dowild(pattern, text, scan.pi + 1, ti + 1, flags)

\* dowild: the result code of matching pattern from pi against text from ti;
\* an iteration of its loop that goes on is the call with the advanced indices
dowild(pattern, text, pi, ti, flags) ==
    IF pi < Len(pattern)
    THEN LET tCh == IF ti < Len(text) THEN foldASCII(At(text, ti), flags) ELSE NUL
             pCh == foldASCII(At(pattern, pi), flags)
         IN  IF ti >= Len(text) /\ At(pattern, pi) # "*" THEN wmAbortAll
             ELSE CASE pCh = "\\" ->
                         IF pi + 1 >= Len(pattern) THEN wmAbortAll
                         ELSE IF ti >= Len(text) \/ tCh # foldASCII(At(pattern, pi + 1), flags)
                         THEN wmNoMatch
                         ELSE dowild(pattern, text, pi + 2, ti + 1, flags)
                    [] pCh = "?" ->
                         IF ti >= Len(text) THEN wmNoMatch
                         ELSE IF HasFlag(flags, wmPathname) /\ At(text, ti) = "/" THEN wmNoMatch
                         ELSE dowild(pattern, text, pi + 1, ti + 1, flags)
                    [] pCh = "*" -> dowildStar(pattern, text, pi, ti, flags)
                    [] pCh = "[" -> dowildClass(pattern, text, pi, ti, flags, tCh)
                    [] OTHER ->
                         IF ti >= Len(text) THEN wmNoMatch
                         ELSE IF tCh # foldASCII(pCh, flags) THEN wmNoMatch
                         ELSE dowild(pattern, text, pi + 1, ti + 1, flags)
    ELSE IF ti < Len(text) THEN wmNoMatch ELSE wmMatch

wildmatch(pattern, text, wmFlags) == dowild(pattern, text, 0, 0, wmFlags)

Match(pattern, text, pathname) ==
    wildmatch(pattern, text, IF pathname THEN wmPathname ELSE 0) = wmMatch

\* opt is the WMOptions record
MatchOpt(pattern, text, opt) ==
    wildmatch(pattern, text,
              (IF opt.Pathname THEN wmPathname ELSE 0) + (IF opt.CaseFold THEN wmCaseFold ELSE 0))
        = wmMatch

-----------------------------------------------------------------------------
(* The inputs of the matcher: patterns made of at most MaxTokens tokens,   *)
(* texts of at most MaxTextLen bytes, one call of Match on each pair.      *)

MaxTokens == 3

MaxTextLen == 3

WildTokens ==
    { <<"b">>, <<"/">>, <<"*">>, <<"?">>, <<"[", "/", "]">>, <<"[", "!", "a", "]">>,
      <<"\\", "/">> }

TextBytes == {"b", "/"}

RECURSIVE WildPatterns(_)
WildPatterns(n) ==
    IF n = 0 THEN {<<>>}
    ELSE WildPatterns(n - 1) \cup {q \o tok : q \in WildPatterns(n - 1), tok \in WildTokens}

RECURSIVE WildTexts(_)
WildTexts(n) ==
    IF n = 0 THEN {<<>>}
    ELSE WildTexts(n - 1) \cup {Append(t, c) : t \in WildTexts(n - 1), c \in TextBytes}

InitWild ==
    /\ wm \in {[nil |-> FALSE, pattern |-> pat, text |-> txt, called |-> FALSE,
                pathname |-> FALSE, result |-> FALSE] :
                   pat \in WildPatterns(MaxTokens), txt \in WildTexts(MaxTextLen)}
    /\ lines = <<>>
    /\ patterns = <<>>
    /\ called = FALSE
    /\ inputPath = <<>>
    /\ isDir = FALSE
    /\ trace = NoTrace
    /\ result = FALSE
    /\ returned = NoSlice
    /\ procs = NoProcs

\* one call Match(pattern, text, pathname)
CallMatch(pathname) ==
    /\ ~wm.called
    /\ wm' = [wm EXCEPT !.called = TRUE, !.pathname = pathname,
                        !.result = Match(wm.pattern, wm.text, pathname)]
    /\ UNCHANGED <<lines, patterns, called, inputPath, isDir, trace, result, returned, procs>>

NextWild == \E pathname \in BOOLEAN : CallMatch(pathname)

SpecWild == InitWild /\ [][NextWild]_vars

(* C20 *)

\* the number of '/' in a text
SlashCount(t) == Cardinality({i \in 1..Len(t) : t[i] = "/"})

\* the index of the ']' that closes the class opened at p[i], Len(p) + 1 when
\* there is none: a ']' directly after the '[' or after the negation mark is
\* a member, a backslash takes the next byte with it
RECURSIVE ClosingFrom(_, _)
ClosingFrom(p, j) ==
    IF j > Len(p) THEN Len(p) + 1
    ELSE IF p[j] = "]" THEN j
    ELSE IF p[j] = "\\" THEN ClosingFrom(p, j + 2)
    ELSE ClosingFrom(p, j + 1)

Closing(p, i) ==
    LET first == IF i + 1 <= Len(p) /\ p[i + 1] \in {"!", "^"} THEN i + 2 ELSE i + 1
    IN  ClosingFrom(p, IF first <= Len(p) /\ p[first] = "]" THEN first + 1 ELSE first)

\* the number of '/' of a pattern from p[i] on that stand outside the
\* classes, unescaped or escaped
RECURSIVE PatternSlashes(_, _)
PatternSlashes(p, i) ==
    IF i > Len(p) THEN 0
    ELSE IF p[i] = "[" THEN PatternSlashes(p, Closing(p, i) + 1)
    ELSE IF p[i] = "\\"
    THEN (IF i + 1 <= Len(p) /\ p[i + 1] = "/" THEN 1 ELSE 0) + PatternSlashes(p, i + 2)
    ELSE (IF p[i] = "/" THEN 1 ELSE 0) + PatternSlashes(p, i + 1)

\* p holds a run of two or more stars that starts the pattern or follows a
\* '/', and that ends the pattern or precedes a '/', unescaped or escaped
HasSpecialRun(p) ==
    \E s \in 1..Len(p), e \in 1..Len(p) :
        /\ s < e
        /\ \A k \in s..e : p[k] = "*"
        /\ s = 1 \/ p[s - 1] = "/"
        /\ \/ e = Len(p)
           \/ p[e + 1] = "/"
           \/ e + 2 <= Len(p) /\ p[e + 1] = "\\" /\ p[e + 2] = "/"

-----------------------------------------------------------------------------
(* Patterns of stars, slashes and a literal, one call of Match on each     *)
(* pattern and text.                                                       *)

StarTokens == { <<"b">>, <<"/">>, <<"*">>, <<"*", "*">>, <<"\\", "/">> }

RECURSIVE StarPatterns(_)
StarPatterns(n) ==
    IF n = 0 THEN {<<>>}
    ELSE StarPatterns(n - 1) \cup {q \o tok : q \in StarPatterns(n - 1), tok \in StarTokens}

InitStars ==
    /\ wm \in {[nil |-> FALSE, pattern |-> pat, text |-> txt, called |-> FALSE,
                pathname |-> FALSE, result |-> FALSE] :
                   pat \in StarPatterns(MaxTokens), txt \in WildTexts(MaxTextLen)}
    /\ lines = <<>>
    /\ patterns = <<>>
    /\ called = FALSE
    /\ inputPath = <<>>
    /\ isDir = FALSE
    /\ trace = NoTrace
    /\ result = FALSE
    /\ returned = NoSlice
    /\ procs = NoProcs

SpecStars == InitStars /\ [][NextWild]_vars

(* C21 *)

\* the index of the last star of the run of stars that starts at p[i]
RECURSIVE RunEnd(_, _)
RunEnd(p, i) == IF i + 1 <= Len(p) /\ p[i + 1] = "*" THEN RunEnd(p, i + 1) ELSE i

\* the run p[s..e] of two or more stars stands at the start of the pattern or
\* directly after '/', and at the end of the pattern or directly before '/';
\* with escapedToo a run directly before an escaped '/' counts as well
InSpecialPosition(p, s, e, escapedToo) ==
    /\ s < e
    /\ s = 1 \/ p[s - 1] = "/"
    /\ \/ e = Len(p)
       \/ p[e + 1] = "/"
       \/ escapedToo /\ e + 2 <= Len(p) /\ p[e + 1] = "\\" /\ p[e + 2] = "/"

\* p from p[i] on with every run of stars that is not in special position
\* replaced by a single star; an escaped byte is copied with its backslash
RECURSIVE SingleStars(_, _, _, _)
SingleStars(p, i, pathname, escapedToo) ==
    IF i > Len(p) THEN <<>>
    ELSE IF p[i] = "\\"
    THEN SubSeq(p, i, IF i + 1 <= Len(p) THEN i + 1 ELSE i)
             \o SingleStars(p, i + 2, pathname, escapedToo)
    ELSE IF p[i] = "*"
    THEN (IF pathname /\ InSpecialPosition(p, i, RunEnd(p, i), escapedToo)
          THEN SubSeq(p, i, RunEnd(p, i)) ELSE <<"*">>)
             \o SingleStars(p, RunEnd(p, i) + 1, pathname, escapedToo)
    ELSE <<p[i]>> \o SingleStars(p, i + 1, pathname, escapedToo)

\* C21 as stated: a run of stars is '**' only in pathname mode, at the start
\* or directly after '/', and at the end or directly before '/'; with every
\* other run replaced by a single star the pattern matches the same texts.
C21_StarRuns_AsStated ==
    wm.called
        => wm.result = Match(SingleStars(wm.pattern, 1, wm.pathname, FALSE), wm.text, wm.pathname)

\* C21: a run of stars is '**' only in pathname mode, at the start or
\* directly after '/', and at the end or directly before a '/' that is
\* unescaped or escaped; with every other run replaced by a single star the
\* pattern matches the same texts; a '**' alone matches every text, and
\* without pathname mode a single star does too.
C21_StarRuns ==
    wm.called
        => /\ wm.result = Match(SingleStars(wm.pattern, 1, wm.pathname, TRUE), wm.text, wm.pathname)
           /\ (wm.pathname /\ wm.pattern = <<"*", "*">>) => wm.result
           /\ (~wm.pathname /\ wm.pattern = <<"*">>) => wm.result

\* "b**b" has been tried on "b/b" in pathname mode and, like "b*b", has not
\* matched
C21_Witness ==
    /\ wm.called /\ wm.pathname /\ ~wm.result
    /\ wm.pattern = <<"b", "*", "*", "b">> /\ wm.text = <<"b", "/", "b">>
    /\ SingleStars(wm.pattern, 1, TRUE, TRUE) = <<"b", "*", "b">>

-----------------------------------------------------------------------------
(* Patterns that start with "**/", and the pattern "b/**/b", each matched  *)
(* in pathname mode against texts of several components.                   *)

RestTokens == { <<"b">>, <<"/">>, <<"*">>, <<"*", "*">> }

RECURSIVE RestPatterns(_)
RestPatterns(n) ==
    IF n = 0 THEN {<<>>}
    ELSE RestPatterns(n - 1) \cup {q \o tok : q \in RestPatterns(n - 1), tok \in RestTokens}

StarStarSlash == <<"*", "*", "/">>

BetweenPattern == <<"b", "/", "*", "*", "/", "b">>

DeepText == <<"b", "/", "b", "/", "b", "/", "b">>

InitPrefixed ==
    /\ wm \in {[nil |-> FALSE, pattern |-> pat, text |-> txt, called |-> FALSE,
                pathname |-> FALSE, result |-> FALSE] :
                   pat \in {StarStarSlash \o q : q \in RestPatterns(MaxTokens)} \cup {BetweenPattern},
                   txt \in WildTexts(MaxTextLen + 2) \cup {DeepText}}
    /\ lines = <<>>
    /\ patterns = <<>>
    /\ called = FALSE
    /\ inputPath = <<>>
    /\ isDir = FALSE
    /\ trace = NoTrace
    /\ result = FALSE
    /\ returned = NoSlice
    /\ procs = NoProcs

NextPrefixed == CallMatch(TRUE)

SpecPrefixed == InitPrefixed /\ [][NextPrefixed]_vars

(* C22 *)

\* the suffixes of t that start right after a '/'
SuffixesAfterSlash(t) == {SubSeq(t, k + 1, Len(t)) : k \in {j \in 1..Len(t) : t[j] = "/"}}

\* C22: "**/" followed by q matches, in pathname mode, every text that q
\* matches and every text with a suffix right after a '/' that q matches;
\* "b/**/b" matches "b/b", "b/b/b" and "b/b/b/b".
C22_StarStarSlashMatchesNothing ==
    (wm.called /\ wm.pathname)
        => /\ HasPrefix(wm.pattern, StarStarSlash)
                => LET q == From(wm.pattern, Len(StarStarSlash))
                   IN  (\/ Match(q, wm.text, TRUE)
                        \/ \E sfx \in SuffixesAfterSlash(wm.text) : Match(q, sfx, TRUE))
                           => wm.result
           /\ (/\ wm.pattern = BetweenPattern
               /\ wm.text \in {<<"b", "/", "b">>, <<"b", "/", "b", "/", "b">>, DeepText})
                => wm.result

\* "**/b" has matched "b", the run and the '/' matching nothing
C22_Witness ==
    /\ wm.called /\ wm.pathname /\ wm.result
    /\ wm.pattern = <<"*", "*", "/", "b">> /\ wm.text = <<"b">>

-----------------------------------------------------------------------------
(* Character classes: a class is written from its parts, an optional       *)
(* negation mark, an optional leading ']' and a list of members, alone or  *)
(* between the literals 't' and '.', and matched against a text written    *)
(* the same way.                                                           *)

MaxMembers == 2

\* the bytes of the texts a class is tried on
ClassBytes == {"c", "b", "5", "A", "]", "/", " ", "."}

\* a member as it is written in a class, with the bytes of ClassBytes it
\* stands for
ListedMembers ==
    { [written |-> <<"c">>, bytes |-> {"c"}],
      [written |-> <<"/">>, bytes |-> {"/"}],
      [written |-> <<"\\", "]">>, bytes |-> {"]"}],
      [written |-> <<"0", "-", "9">>, bytes |-> {"5"}],
      [written |-> <<"a", "-", "c">>, bytes |-> {"b", "c"}] }

PosixClass(name, bytes) ==
    [written |-> <<"[", ":">> \o name \o <<":", "]">>, bytes |-> bytes]

PosixMembers ==
    { PosixClass(<<"a", "l", "n", "u", "m">>, {"c", "b", "5", "A"}),
      PosixClass(<<"a", "l", "p", "h", "a">>, {"c", "b", "A"}),
      PosixClass(<<"b", "l", "a", "n", "k">>, {" "}),
      PosixClass(<<"c", "n", "t", "r", "l">>, {}),
      PosixClass(<<"d", "i", "g", "i", "t">>, {"5"}),
      PosixClass(<<"g", "r", "a", "p", "h">>, {"c", "b", "5", "A", "]", "/", "."}),
      PosixClass(<<"l", "o", "w", "e", "r">>, {"c", "b"}),
      PosixClass(<<"p", "r", "i", "n", "t">>, ClassBytes),
      PosixClass(<<"p", "u", "n", "c", "t">>, {"]", "/", "."}),
      PosixClass(<<"s", "p", "a", "c", "e">>, {" "}),
      PosixClass(<<"u", "p", "p", "e", "r">>, {"A"}),
      PosixClass(<<"x", "d", "i", "g", "i", "t">>, {"c", "b", "5", "A"}) }

RECURSIVE ListedLists(_)
ListedLists(n) ==
    IF n = 0 THEN {<<>>}
    ELSE ListedLists(n - 1) \cup {Append(l, m) : l \in ListedLists(n - 1), m \in ListedMembers}

MemberLists == ListedLists(MaxMembers) \cup {<<m>> : m \in PosixMembers}

\* the classes: one without a member and without a leading ']' is not a
\* class, its ']' would be a member
Classes ==
    {c \in [mark : {<<>>, <<"!">>, <<"^">>}, leading : BOOLEAN, members : MemberLists] :
        c.leading \/ c.members # <<>>}

RECURSIVE WrittenMembers(_)
WrittenMembers(l) == IF l = <<>> THEN <<>> ELSE Head(l).written \o WrittenMembers(Tail(l))

\* the class as the pattern holds it
Written(c) ==
    <<"[">> \o c.mark \o (IF c.leading THEN <<"]">> ELSE <<>>) \o WrittenMembers(c.members)
        \o <<"]">>

\* x between 't' and '.' when between, x alone otherwise
Between(x, between) == IF between THEN <<"t">> \o x \o <<".">> ELSE x

ClassTexts == {<<>>, <<"5", "5">>} \cup {<<b>> : b \in ClassBytes}

InitClasses ==
    /\ wm \in {[nil |-> FALSE, pattern |-> Between(Written(c), between),
                text |-> Between(txt, between), called |-> FALSE, pathname |-> FALSE,
                result |-> FALSE, class |-> c, between |-> between] :
                   c \in Classes, txt \in ClassTexts, between \in BOOLEAN}
    /\ lines = <<>>
    /\ patterns = <<>>
    /\ called = FALSE
    /\ inputPath = <<>>
    /\ isDir = FALSE
    /\ trace = NoTrace
    /\ result = FALSE
    /\ returned = NoSlice
    /\ procs = NoProcs

SpecClasses == InitClasses /\ [][NextWild]_vars

(* C23 *)

\* the bytes that are members of the class c
MembersOf(c) ==
    (IF c.leading THEN {"]"} ELSE {})
        \cup UNION {c.members[i].bytes : i \in 1..Len(c.members)}

\* the text the class itself is tried on
ClassText == IF wm.between THEN SubSeq(wm.text, 2, Len(wm.text) - 1) ELSE wm.text

\* C23: a class matches exactly the texts of one byte that is a member of
\* it, or with a leading '!' or '^' is not, a ']' written first being a
\* member; in pathname mode it does not match '/'.  So "t[0-9]." matches
\* "t5." and neither "tA." nor "t55.".
C23_ClassMembership ==
    wm.called
        => wm.result
               = (/\ Len(ClassText) = 1
                  /\ (ClassText[1] \in MembersOf(wm.class)) = (wm.class.mark = <<>>)
                  /\ ~(wm.pathname /\ ClassText[1] = "/"))

\* "[^]c]" has been tried on "]" and has not matched: the ']' written first
\* is a member and '^' inverts
C23_Witness ==
    /\ wm.called /\ ~wm.result
    /\ wm.pattern = <<"[", "^", "]", "c", "]">> /\ wm.text = <<"]">>

-----------------------------------------------------------------------------
(* C24 *)

\* scanning the rules of pats from the k-th down to the first for the
\* directory dirPath stops at a rule that is not a negation
RECURSIVE ScanBackward(_, _, _)
ScanBackward(pats, dirPath, k) ==
    IF k = 0 THEN FALSE
    ELSE IF matchesPattern(pats[k], dirPath, TRUE) THEN ~pats[k].negated
    ELSE ScanBackward(pats, dirPath, k - 1)

\* C24: the excluded map Pass 1 returns holds exactly the strict ancestors
\* of the normalized path for which the scan of the rules from last to
\* first stops at a rule that is not a negation; the path itself is not in
\* it, and the lookup that follows finds an excluded parent exactly when
\* one of those ancestors is in the map.
C24_ForwardPassIsBackwardScan ==
    Reached
        => /\ trace.excludedDirs
                  = {dirPath \in StrictAncestors(NormalizedPath) :
                        ScanBackward(patterns, dirPath, Len(patterns))}
           /\ NormalizedPath \notin trace.excludedDirs
           /\ trace.parentExcluded
                  = (\E dirPath \in StrictAncestors(NormalizedPath) :
                        dirPath \in trace.excludedDirs)

\* under the rules "a", "!a" the parent "a" of "a/b" was set and deleted
\* again, under "!a", "a" it stays
C24_Witness ==
    /\ Reached /\ lines = << <<"!", "a">>, <<"a">> >>
    /\ NormalizedPath = <<"a", "/", "b">>
    /\ trace.excludedDirs = {<<"a">>} /\ trace.parentExcluded

-----------------------------------------------------------------------------
(* Patterns over a literal byte, '/', '*', '**' and '?', matched in        *)
(* pathname mode against texts over two literal bytes and '/'.             *)

GlobTokens == { <<"b">>, <<"/">>, <<"*">>, <<"*", "*">>, <<"?">> }

GlobBytes == {"b", "c", "/"}

RECURSIVE GlobPatterns(_)
GlobPatterns(n) ==
    IF n = 0 THEN {<<>>}
    ELSE GlobPatterns(n - 1) \cup {q \o tok : q \in GlobPatterns(n - 1), tok \in GlobTokens}

RECURSIVE GlobTexts(_)
GlobTexts(n) ==
    IF n = 0 THEN {<<>>}
    ELSE GlobTexts(n - 1) \cup {Append(t, c) : t \in GlobTexts(n - 1), c \in GlobBytes}

InitGlob ==
    /\ wm \in {[nil |-> FALSE, pattern |-> pat, text |-> txt, called |-> FALSE,
                pathname |-> FALSE, result |-> FALSE] :
                   pat \in GlobPatterns(MaxTokens), txt \in GlobTexts(MaxTextLen + 1)}
    /\ lines = <<>>
    /\ patterns = <<>>
    /\ called = FALSE
    /\ inputPath = <<>>
    /\ isDir = FALSE
    /\ trace = NoTrace
    /\ result = FALSE
    /\ returned = NoSlice
    /\ procs = NoProcs

SpecGlob == InitGlob /\ [][NextPrefixed]_vars

(* C25 *)

\* t[j..k-1] holds no '/'
NoSlashIn(t, j, k) == \A m \in j..(k - 1) : t[m] # "/"

\* the declarative semantics in pathname mode: the pattern from p[i] on
\* stands for the text from t[j] on.  A run of stars in special position
\* stands for any string, and together with the '/' behind it also for the
\* empty string; every other run for any string without '/'; '?' for one
\* byte other than '/'; every other byte for itself.
RECURSIVE Glob(_, _, _, _)
Glob(p, i, t, j) ==
    IF i > Len(p) THEN j > Len(t)
    ELSE IF p[i] = "*"
    THEN LET e == RunEnd(p, i)
         IN  IF InSpecialPosition(p, i, e, FALSE)
             THEN \/ \E k \in j..(Len(t) + 1) : Glob(p, e + 1, t, k)
                  \/ e + 1 <= Len(p) /\ p[e + 1] = "/" /\ Glob(p, e + 2, t, j)
             ELSE \E k \in j..(Len(t) + 1) : NoSlashIn(t, j, k) /\ Glob(p, e + 1, t, k)
    ELSE IF p[i] = "?" THEN j <= Len(t) /\ t[j] # "/" /\ Glob(p, i + 1, t, j + 1)
    ELSE j <= Len(t) /\ t[j] = p[i] /\ Glob(p, i + 1, t, j + 1)

\* C25: in pathname mode Match gives, for every pattern over a literal
\* byte, '/', '*' and '?' and every text, the result of the declarative
\* semantics.
C25_MatchIsDeclarative ==
    (wm.called /\ wm.pathname) => wm.result = Glob(wm.pattern, 1, wm.text, 1)

\* "**/*" has matched "/c/b": the single star met a '/' when tried behind
\* the first '/', and the '**' went on to the second
C25_Witness ==
    /\ wm.called /\ wm.pathname /\ wm.result
    /\ wm.pattern = <<"*", "*", "/", "*">> /\ wm.text = <<"/", "c", "/", "b">>
    /\ dowild(wm.pattern, wm.text, 2, 0, wmPathname) = wmAbortToStarstar

-----------------------------------------------------------------------------
(* Patterns over a lower-case and an upper-case letter, '/', '*' and '?', *)
(* matched by MatchOpt under every setting of the options.                 *)

ScanTokens == { <<"b">>, <<"B">>, <<"/">>, <<"*">>, <<"?">> }

ScanBytes == {"b", "B", "/"}

RECURSIVE ScanPatterns(_)
ScanPatterns(n) ==
    IF n = 0 THEN {<<>>}
    ELSE ScanPatterns(n - 1) \cup {q \o tok : q \in ScanPatterns(n - 1), tok \in ScanTokens}

RECURSIVE ScanTexts(_)
ScanTexts(n) ==
    IF n = 0 THEN {<<>>}
    ELSE ScanTexts(n - 1) \cup {Append(t, c) : t \in ScanTexts(n - 1), c \in ScanBytes}

\* the values of WMOptions
WMOptions == [Pathname : BOOLEAN, CaseFold : BOOLEAN]

InitScan ==
    /\ wm \in {[nil |-> FALSE, pattern |-> pat, text |-> txt, called |-> FALSE,
                pathname |-> FALSE, caseFold |-> FALSE, result |-> FALSE] :
                   pat \in ScanPatterns(MaxTokens), txt \in ScanTexts(MaxTextLen)}
    /\ lines = <<>>
    /\ patterns = <<>>
    /\ called = FALSE
    /\ inputPath = <<>>
    /\ isDir = FALSE
    /\ trace = NoTrace
    /\ result = FALSE
    /\ returned = NoSlice
    /\ procs = NoProcs

\* one call MatchOpt(pattern, text, opt)
CallMatchOpt(opt) ==
    /\ ~wm.called
    /\ wm' = [wm EXCEPT !.called = TRUE, !.pathname = opt.Pathname, !.caseFold = opt.CaseFold,
                        !.result = MatchOpt(wm.pattern, wm.text, opt)]
    /\ UNCHANGED <<lines, patterns, called, inputPath, isDir, trace, result, returned, procs>>

NextOpt == \E opt \in WMOptions : CallMatchOpt(opt)

SpecScan == InitScan /\ [][NextOpt]_vars

(* C26 *)

\* the matcher with the forward scan removed, for patterns of literal bytes,
\* '/', '*' and '?': after a star run the main loop of the star starts at the
\* text index the run was met at and tries every position
RECURSIVE PlainWild(_, _, _, _, _)
RECURSIVE PlainLoop(_, _, _, _, _, _)

PlainLoop(pattern, text, pi, ti, flags, matchSlash) ==
    IF ti < Len(text)
    THEN LET res == PlainWild(pattern, text, pi, ti, flags)
         IN  IF res # wmNoMatch
             THEN IF ~matchSlash \/ res # wmAbortToStarstar THEN res
                  ELSE PlainLoop(pattern, text, pi, ti + 1, flags, matchSlash)
             ELSE IF ~matchSlash /\ At(text, ti) = "/" THEN wmAbortToStarstar
                  ELSE PlainLoop(pattern, text, pi, ti + 1, flags, matchSlash)
    ELSE wmAbortAll

PlainStar(pattern, text, pi, ti, flags) ==
    LET isRun == pi + 1 < Len(pattern) /\ At(pattern, pi + 1) = "*"
        after == IF isRun THEN skipStars(pattern, pi + 1) ELSE pi + 1
        special == isRun /\ HasFlag(flags, wmPathname) /\ specialPosition(pattern, pi + 1, after)
        zeroWidth == /\ special /\ after < Len(pattern) /\ At(pattern, after) = "/"
                     /\ PlainWild(pattern, text, after + 1, ti, flags) = wmMatch
        matchSlash == IF isRun THEN ~HasFlag(flags, wmPathname) \/ special
                      ELSE ~HasFlag(flags, wmPathname)
    IN  IF zeroWidth THEN wmMatch
        ELSE IF after >= Len(pattern)
        THEN IF ~matchSlash /\ \E i \in ti..(Len(text) - 1) : At(text, i) = "/"
             THEN wmAbortToStarstar ELSE wmMatch
        ELSE IF ~matchSlash /\ At(pattern, after) = "/"
        THEN IF nextSlash(text, ti) >= Len(text) THEN wmAbortAll
             ELSE PlainWild(pattern, text, after, nextSlash(text, ti), flags)
        ELSE PlainLoop(pattern, text, after, ti, flags, matchSlash)

PlainWild(pattern, text, pi, ti, flags) ==
    IF pi < Len(pattern)
    THEN LET tCh == IF ti < Len(text) THEN foldASCII(At(text, ti), flags) ELSE NUL
             pCh == foldASCII(At(pattern, pi), flags)
         IN  IF ti >= Len(text) /\ At(pattern, pi) # "*" THEN wmAbortAll
             ELSE CASE pCh = "?" ->
                         IF HasFlag(flags, wmPathname) /\ At(text, ti) = "/" THEN wmNoMatch
                         ELSE PlainWild(pattern, text, pi + 1, ti + 1, flags)
                    [] pCh = "*" -> PlainStar(pattern, text, pi, ti, flags)
                    [] OTHER ->
                         IF tCh # pCh THEN wmNoMatch
                         ELSE PlainWild(pattern, text, pi + 1, ti + 1, flags)
    ELSE IF ti < Len(text) THEN wmNoMatch ELSE wmMatch

\* the flags MatchOpt passes for the options of the last call
FlagsOfCall ==
    (IF wm.pathname THEN wmPathname ELSE 0) + (IF wm.caseFold THEN wmCaseFold ELSE 0)

\* C26: under every setting of the options MatchOpt gives the result of the
\* matcher without the forward scan.
C26_ForwardScanIsOptimization ==
    wm.called => wm.result = (PlainWild(wm.pattern, wm.text, 0, 0, FlagsOfCall) = wmMatch)

\* "*B" has matched "bb" with case folding, the scan having stopped at the
\* first 'b', where the rest of the pattern does not yet match
C26_Witness ==
    /\ wm.called /\ wm.caseFold /\ wm.pathname /\ wm.result
    /\ wm.pattern = <<"*", "B">> /\ wm.text = <<"b", "b">>
    /\ forwardScan(wm.pattern, wm.text, 1, 0, FlagsOfCall, FALSE).ti = 0

-----------------------------------------------------------------------------
(* dowild step by step.  wm.stack holds one frame per call of dowild that  *)
(* has not returned, the innermost last: start is the pattern index the    *)
(* call began at, pi and ti are its indices, mode says where it stands:    *)
(* "run" in the main loop, "zero" waiting for the zero-width call, "loop"  *)
(* in the main loop of a star, "wait" waiting for the call made there.     *)
(* wm.ret holds the code the innermost call is returning.                  *)

RunTokens == { <<"b">>, <<"/">>, <<"*">>, <<"*", "*">>, <<"[", "b", "]">> }

RECURSIVE RunPatterns(_)
RunPatterns(n) ==
    IF n = 0 THEN {<<>>}
    ELSE RunPatterns(n - 1) \cup {q \o tok : q \in RunPatterns(n - 1), tok \in RunTokens}

NoReturn == [set |-> FALSE, code |-> wmMatch]

Returning(code) == [set |-> TRUE, code |-> code]

Frame(pi, ti) ==
    [start |-> pi, pi |-> pi, ti |-> ti, mode |-> "run", after |-> pi, matchSlash |-> FALSE]

InitRun ==
    /\ wm \in {[nil |-> FALSE, pattern |-> pat, text |-> txt, called |-> FALSE, flags |-> 0,
                stack |-> <<>>, ret |-> NoReturn, done |-> FALSE, code |-> wmMatch] :
                   pat \in RunPatterns(MaxTokens), txt \in WildTexts(MaxTextLen)}
    /\ lines = <<>>
    /\ patterns = <<>>
    /\ called = FALSE
    /\ inputPath = <<>>
    /\ isDir = FALSE
    /\ trace = NoTrace
    /\ result = FALSE
    /\ returned = NoSlice
    /\ procs = NoProcs

\* the innermost frame
Top == wm.stack[Len(wm.stack)]

\* the stack with its innermost frame replaced
WithTop(f) == [wm.stack EXCEPT ![Len(wm.stack)] = f]

Others == <<lines, patterns, called, inputPath, isDir, trace, result, returned, procs>>

\* wildmatch(pattern, text, flags): the first call of dowild
Call(flags) ==
    /\ ~wm.called
    /\ wm' = [wm EXCEPT !.called = TRUE, !.flags = flags, !.stack = <<Frame(0, 0)>>]
    /\ UNCHANGED Others

\* what follows the star run once its kind is known, pi behind the run:
\* the end-of-pattern case, the case of a single star before '/', the
\* fast-forward, and the entry into the main loop of the star
starEntry(pattern, text, pi, ti, flags, matchSlash) ==
    LET scan == forwardScan(pattern, text, pi, ti, flags, matchSlash)
    IN  IF pi >= Len(pattern)
        THEN [mode |-> "return", pi |-> pi, ti |-> ti,
              code |-> IF ~matchSlash /\ \E i \in ti..(Len(text) - 1) : At(text, i) = "/"
                       THEN wmAbortToStarstar ELSE wmMatch]
        ELSE IF ~matchSlash /\ At(pattern, pi) = "/"
        THEN IF nextSlash(text, ti) >= Len(text)
             THEN [mode |-> "return", pi |-> pi, ti |-> ti, code |-> wmAbortAll]
             ELSE [mode |-> "run", pi |-> pi, ti |-> nextSlash(text, ti), code |-> wmMatch]
        ELSE IF scan.returns
        THEN [mode |-> "return", pi |-> pi, ti |-> ti, code |-> scan.code]
        ELSE [mode |-> "loop", pi |-> pi, ti |-> scan.ti, code |-> wmMatch]

\* escapeCutOff with the check left out
escapeCutOff_Unchecked(pattern, pi) == FALSE

\* the check after the '\\' of an escape: the pattern ends at pi, behind the '\\'
escapeCutOff(pattern, pi) == pi >= Len(pattern)

\* one iteration of the main loop of dowild at a token that is not a star:
\* the code returned, or the indices of the next iteration
tokenStep(pattern, text, pi, ti, flags) ==
    LET tCh == foldASCII(At(text, ti), flags)
        pCh == foldASCII(At(pattern, pi), flags)
        negated == classNegated(pattern, pi + 1)
        first == IF negated THEN pi + 2 ELSE pi + 1
        leading == first < Len(pattern) /\ At(pattern, first) = "]"
        scan == classMembers(pattern, text, IF leading THEN first + 1 ELSE first, ti, flags, tCh,
                             leading /\ tCh = "]", IF leading THEN "]" ELSE NUL)
        Go(npi) == [mode |-> "run", pi |-> npi, ti |-> ti + 1, code |-> wmMatch]
        Stop(code) == [mode |-> "return", pi |-> pi, ti |-> ti, code |-> code]
    IN  CASE pCh = "\\" ->
                IF escapeCutOff(pattern, pi + 1) THEN Stop(wmAbortAll)
                ELSE IF tCh # foldASCII(At(pattern, pi + 1), flags) THEN Stop(wmNoMatch)
                ELSE Go(pi + 2)
          [] pCh = "?" ->
                IF HasFlag(flags, wmPathname) /\ At(text, ti) = "/" THEN Stop(wmNoMatch)
                ELSE Go(pi + 1)
          [] pCh = "[" ->
                IF pi + 1 >= Len(pattern) THEN Stop(wmAbortAll)
                ELSE IF scan.abort THEN Stop(wmAbortAll)
                ELSE IF scan.pi >= Len(pattern) \/ At(pattern, scan.pi) # "]" THEN Stop(wmAbortAll)
                ELSE IF scan.matched = negated THEN Stop(wmNoMatch)
                ELSE IF HasFlag(flags, wmPathname) /\ At(text, ti) = "/" THEN Stop(wmNoMatch)
                ELSE Go(scan.pi + 1)
          [] OTHER -> IF tCh # pCh THEN Stop(wmNoMatch) ELSE Go(pi + 1)

\* the frame f going on as the outcome o says
Continue(f, o) == [f EXCEPT !.mode = o.mode, !.pi = o.pi, !.ti = o.ti]

\* the wm record after the innermost frame f took the outcome o
Outcome(f, o) ==
    IF o.mode = "return" THEN [wm EXCEPT !.ret = Returning(o.code)]
    ELSE [wm EXCEPT !.stack = WithTop(Continue(f, o))]

\* one iteration of the main loop of the innermost call
Step ==
    /\ wm.called /\ ~wm.done /\ ~wm.ret.set /\ Len(wm.stack) > 0 /\ Top.mode = "run"
    /\ LET pattern == wm.pattern
           text == wm.text
           pi == Top.pi
           ti == Top.ti
           isRun == pi + 1 < Len(pattern) /\ At(pattern, pi + 1) = "*"
           after == IF isRun THEN skipStars(pattern, pi + 1) ELSE pi + 1
           special == isRun /\ HasFlag(wm.flags, wmPathname)
                          /\ specialPosition(pattern, pi + 1, after)
           matchSlash == IF isRun THEN ~HasFlag(wm.flags, wmPathname) \/ special
                         ELSE ~HasFlag(wm.flags, wmPathname)
       IN  wm' = IF pi >= Len(pattern)
                 THEN [wm EXCEPT !.ret = Returning(IF ti < Len(text) THEN wmNoMatch ELSE wmMatch)]
                 ELSE IF ti >= Len(text) /\ At(pattern, pi) # "*"
                 THEN [wm EXCEPT !.ret = Returning(wmAbortAll)]
                 ELSE IF At(pattern, pi) # "*"
                 THEN Outcome(Top, tokenStep(pattern, text, pi, ti, wm.flags))
                 ELSE IF special /\ after < Len(pattern) /\ At(pattern, after) = "/"
                 THEN [wm EXCEPT !.stack =
                          Append(WithTop([Top EXCEPT !.mode = "zero", !.after = after,
                                                     !.matchSlash = TRUE]),
                                 Frame(after + 1, ti))]
                 ELSE Outcome([Top EXCEPT !.after = after, !.matchSlash = matchSlash],
                              starEntry(pattern, text, after, ti, wm.flags, matchSlash))
    /\ UNCHANGED Others

\* nextTry with the text index left where it is
nextTry_Stuck(ti) == ti

\* the text index the main loop of a star tries next
nextTry(ti) == ti + 1

\* the head of the main loop of a star: the call of dowild at the text index,
\* or AbortAll when the text is used up
TryAt ==
    /\ wm.called /\ ~wm.done /\ ~wm.ret.set /\ Len(wm.stack) > 0 /\ Top.mode = "loop"
    /\ wm' = IF Top.ti < Len(wm.text)
             THEN [wm EXCEPT !.stack = Append(WithTop([Top EXCEPT !.mode = "wait"]),
                                              Frame(Top.pi, Top.ti))]
             ELSE [wm EXCEPT !.ret = Returning(wmAbortAll)]
    /\ UNCHANGED Others

\* the innermost call returns wm.ret.code: to wildmatch, to the zero-width
\* attempt, or to the main loop of a star
Return ==
    /\ wm.called /\ ~wm.done /\ wm.ret.set
    /\ LET res == wm.ret.code
           rest == SubSeq(wm.stack, 1, Len(wm.stack) - 1)
           caller == rest[Len(rest)]
           WithCaller(f) == [rest EXCEPT ![Len(rest)] = f]
           entry == starEntry(wm.pattern, wm.text, caller.after, caller.ti, wm.flags, TRUE)
           again == [caller EXCEPT !.mode = "loop", !.ti = nextTry(caller.ti)]
       IN  wm' = IF rest = <<>>
                 THEN [wm EXCEPT !.stack = rest, !.ret = NoReturn, !.done = TRUE, !.code = res]
                 ELSE IF caller.mode = "zero"
                 THEN IF res = wmMatch THEN [wm EXCEPT !.stack = rest]
                      ELSE IF entry.mode = "return"
                      THEN [wm EXCEPT !.stack = rest, !.ret = Returning(entry.code)]
                      ELSE [wm EXCEPT !.stack = WithCaller(Continue(caller, entry)),
                                      !.ret = NoReturn]
                 ELSE IF res # wmNoMatch
                 THEN IF ~caller.matchSlash \/ res # wmAbortToStarstar
                      THEN [wm EXCEPT !.stack = rest]
                      ELSE [wm EXCEPT !.stack = WithCaller(again), !.ret = NoReturn]
                 ELSE IF ~caller.matchSlash /\ At(wm.text, caller.ti) = "/"
                 THEN [wm EXCEPT !.stack = rest, !.ret = Returning(wmAbortToStarstar)]
                 ELSE [wm EXCEPT !.stack = WithCaller(again), !.ret = NoReturn]
    /\ UNCHANGED Others

NextRun ==
    \/ \E flags \in {0, wmPathname} : Call(flags)
    \/ Step
    \/ TryAt
    \/ Return

SpecRun == InitRun /\ [][NextRun]_vars /\ WF_vars(NextRun)

\* every call on the stack began at a greater pattern index than its caller
StartsIncrease ==
    \A k \in 1..(Len(wm.stack) - 1) : wm.stack[k + 1].start > wm.stack[k].start

\* the calls of dowild that have not returned are no more than the pattern has bytes
DepthBounded == Len(wm.stack) <= Len(wm.pattern) \/ Len(wm.stack) <= 1

\* a call that goes on after a step of its own, or after a call it made came
\* back, stands at a greater pattern index or a greater text index
LoopAdvances ==
    LET n == Len(wm'.stack)
    IN  (wm.called /\ n > 0 /\ n <= Len(wm.stack) /\ ~wm'.ret.set /\ wm'.stack # wm.stack)
            => \/ wm'.stack[n].pi > wm.stack[n].pi
               \/ wm'.stack[n].ti > wm.stack[n].ti

\* C27: every call of Match terminates: each call of dowild on the stack began
\* at a strictly greater pattern index than its caller, the depth of the
\* recursion is at most the pattern length, every iteration of a loop advances
\* the pattern index or the text index, and the first call returns in the end,
\* with the code the matcher computes
C27_MatchTerminates ==
    /\ [](StartsIncrease /\ DepthBounded)
    /\ [][LoopAdvances]_vars
    /\ <>(wm.done /\ wm.code = wildmatch(wm.pattern, wm.text, wm.flags))

\* a star loop that has moved on in the text after a failed attempt, and whose
\* current attempt has itself moved on in the pattern
C27_Witness ==
    /\ ~wm.nil /\ wm.called /\ Len(wm.stack) >= 2
    /\ wm.stack[1].mode = "wait" /\ wm.stack[1].ti > 0
    /\ wm.stack[2].pi > wm.stack[2].start

-----------------------------------------------------------------------------
(* Patterns cut off in the middle of an escape, a range or a POSIX class.  *)

CutTokens ==
    { <<"\\">>, <<"[">>, <<"]">>, <<"-">>, <<"!">>, <<"a">>, <<"*">>, <<"/">>,
      <<"[", ":", "a", "l", "p", "h", "a", ":", "]">>, <<"[", ":", "a", "l">> }

RECURSIVE CutPatterns(_)
CutPatterns(n) ==
    IF n = 0 THEN {<<>>}
    ELSE CutPatterns(n - 1) \cup {q \o tok : q \in CutPatterns(n - 1), tok \in CutTokens}

\* a range cut off behind the '\' of its end, a range and a POSIX class cut
\* off before the closing ']', a star run before an escape that is cut off
CutOffPatterns ==
    { <<"[", "a", "-", "\\">>, <<"[", "!", "a", "-", "a">>,
      <<"[", "[", ":", "a", "l", "p", "h", "a", ":", "]">>, <<"[", "[", ":", "]", "]">>,
      <<"/", "*", "*", "\\">>, <<"*", "*", "\\">>, <<"a", "*", "[", "]">> }

CutTexts == { <<>>, <<"a">>, <<"/">>, <<"]">>, <<"a", "a">>, <<"a", "/", "a">> }

InitCut ==
    /\ wm \in {[nil |-> FALSE, pattern |-> pat, text |-> txt, called |-> FALSE, flags |-> 0,
                stack |-> <<>>, ret |-> NoReturn, done |-> FALSE, code |-> wmMatch] :
                   pat \in CutPatterns(MaxTokens) \cup CutOffPatterns, txt \in CutTexts}
    /\ lines = <<>>
    /\ patterns = <<>>
    /\ called = FALSE
    /\ inputPath = <<>>
    /\ isDir = FALSE
    /\ trace = NoTrace
    /\ result = FALSE
    /\ returned = NoSlice
    /\ procs = NoProcs

SpecCut == InitCut /\ [][NextRun]_vars

\* the pattern indices one iteration of the class loop reads behind pattern[pi]
classStepReads(pattern, pi, prevCh) ==
    LET pCh == At(pattern, pi)
        startIndex == pi + 2
        classEndIndex == classEnd(pattern, startIndex)
    IN  CASE pCh = "\\" -> IF pi + 1 >= Len(pattern) THEN {} ELSE {pi + 1}
          [] pCh = "-" /\ prevCh # NUL /\ pi + 1 < Len(pattern) /\ At(pattern, pi + 1) # "]" ->
                {pi + 1} \cup (IF At(pattern, pi + 1) = "\\" /\ pi + 2 < Len(pattern)
                               THEN {pi + 2} ELSE {})
          [] pCh = "[" /\ pi + 1 < Len(pattern) /\ At(pattern, pi + 1) = ":" ->
                {pi + 1}
                    \cup {k \in startIndex..classEndIndex : k < Len(pattern)}
                    \cup (IF classEndIndex < Len(pattern) /\ classEndIndex - 1 > startIndex
                          THEN {classEndIndex - 1} ELSE {})
                    \cup (IF /\ classEndIndex < Len(pattern) /\ classEndIndex - 1 > startIndex
                             /\ At(pattern, classEndIndex - 1) = ":"
                          THEN startIndex..(classEndIndex - 2) ELSE {})
          [] OTHER -> IF pCh \in {"-", "["} /\ (pCh = "[" \/ prevCh # NUL) /\ pi + 1 < Len(pattern)
                      THEN {pi + 1} ELSE {}

\* the pattern indices the class loop and the check for the closing ']' read
RECURSIVE classReads(_, _, _, _, _, _, _, _)
classReads(pattern, text, pi, ti, flags, tCh, matched, prevCh) ==
    IF pi < Len(pattern) /\ At(pattern, pi) # "]"
    THEN LET step == classStep(pattern, text, pi, ti, flags, tCh, matched, prevCh)
         IN  {pi} \cup classStepReads(pattern, pi, prevCh)
                  \cup (IF step.abort THEN {}
                        ELSE classReads(pattern, text, step.pi, ti, flags, tCh,
                                        step.matched, step.prevCh))
    ELSE IF pi < Len(pattern) THEN {pi} ELSE {}

\* the pattern indices the case '*' reads, pi at the first star
starReads(pattern, pi, flags) ==
    LET isRun == pi + 1 < Len(pattern) /\ At(pattern, pi + 1) = "*"
        prevP == pi + 1
        after == IF isRun THEN skipStars(pattern, pi + 1) ELSE pi + 1
        leading == prevP < 2 \/ At(pattern, prevP - 2) = "/"
    IN  (IF pi + 1 < Len(pattern) THEN {pi + 1} ELSE {})
            \cup (IF isRun THEN {k \in (pi + 1)..after : k < Len(pattern)} ELSE {})
            \cup (IF isRun /\ HasFlag(flags, wmPathname) /\ prevP >= 2 THEN {prevP - 2} ELSE {})
            \cup (IF isRun /\ HasFlag(flags, wmPathname) /\ leading /\ after < Len(pattern)
                  THEN {after} \cup (IF At(pattern, after) # "/" /\ after + 1 < Len(pattern)
                                        /\ At(pattern, after) = "\\"
                                     THEN {after + 1} ELSE {})
                  ELSE {})
            \cup (IF after < Len(pattern) THEN {after} ELSE {})

\* the pattern indices one iteration of the main loop of dowild reads
patternReads(pattern, text, pi, ti, flags) ==
    IF pi >= Len(pattern) THEN {}
    ELSE LET pCh == At(pattern, pi)
             tCh == IF ti < Len(text) THEN foldASCII(At(text, ti), flags) ELSE NUL
             negated == classNegated(pattern, pi + 1)
             first == IF negated THEN pi + 2 ELSE pi + 1
             leading == first < Len(pattern) /\ At(pattern, first) = "]"
         IN  {pi} \cup
             IF ti >= Len(text) /\ pCh # "*" THEN {}
             ELSE CASE pCh = "\\" -> IF escapeCutOff(pattern, pi + 1) THEN {} ELSE {pi + 1}
                    [] pCh = "*" -> starReads(pattern, pi, flags)
                    [] pCh = "[" ->
                          IF pi + 1 >= Len(pattern) THEN {}
                          ELSE {pi + 1}
                                  \cup (IF first < Len(pattern) THEN {first} ELSE {})
                                  \cup classReads(pattern, text,
                                                  IF leading THEN first + 1 ELSE first, ti,
                                                  flags, tCh, leading /\ tCh = "]",
                                                  IF leading THEN "]" ELSE NUL)
                    [] OTHER -> {}

\* the text indices one iteration of the main loop of dowild reads
textReads(pattern, text, pi, ti, flags) ==
    IF pi >= Len(pattern) THEN {}
    ELSE IF ti >= Len(text) /\ At(pattern, pi) # "*" THEN {}
    ELSE (IF ti < Len(text) THEN {ti} ELSE {})
            \cup CASE At(pattern, pi) = "?" -> IF HasFlag(flags, wmPathname) THEN {ti} ELSE {}
                   [] At(pattern, pi) = "[" -> IF pi + 1 >= Len(pattern) THEN {} ELSE {ti}
                   [] At(pattern, pi) = "*" -> {k \in ti..Len(text) : k < Len(text)}
                   [] OTHER -> {}

\* C28: the matcher never reads the pattern or the text at an index outside
\* their bounds, whatever the pattern (empty, or cut off in an escape, a range
\* or a POSIX class name) and the text: every iteration of the main loop reads
\* inside both, the star loop reads the text inside it, and the first call
\* returns one of the four result codes, from which Match makes a boolean
C28_ReadsInBounds ==
    /\ \A k \in 1..Len(wm.stack) :
          /\ wm.stack[k].mode = "wait" => wm.stack[k].ti \in 0..(Len(wm.text) - 1)
          /\ (wm.stack[k].mode = "run" /\ k = Len(wm.stack) /\ ~wm.ret.set) =>
                /\ patternReads(wm.pattern, wm.text, wm.stack[k].pi, wm.stack[k].ti, wm.flags)
                       \subseteq 0..(Len(wm.pattern) - 1)
                /\ textReads(wm.pattern, wm.text, wm.stack[k].pi, wm.stack[k].ti, wm.flags)
                       \subseteq 0..(Len(wm.text) - 1)
    /\ wm.done => wm.code \in {wmMatch, wmNoMatch, wmAbortAll, wmAbortToStarstar}

\* the matcher has returned AbortAll for a pattern that ends in the '\' of an
\* escape, after matching what stands before it
C28_Witness ==
    /\ ~wm.nil /\ wm.called /\ wm.done /\ wm.code = wmAbortAll
    /\ Len(wm.pattern) >= 2 /\ wm.pattern[Len(wm.pattern)] = "\\"
    /\ wm.pattern[Len(wm.pattern) - 1] = "a" /\ wm.text = <<"a", "a">>

-----------------------------------------------------------------------------
(* MatchOpt with case folding on letters, ranges and POSIX classes.        *)

FoldTokens ==
    { <<"a">>, <<"B">>, <<"*">>, <<"[", "a", "-", "b", "]">>, <<"[", "A", "-", "_", "]">>,
      <<"[", "[", ":", "u", "p", "p", "e", "r", ":", "]", "]">>,
      <<"[", "[", ":", "l", "o", "w", "e", "r", ":", "]", "]">> }

FoldBytes == {"a", "A", "B"}

RECURSIVE FoldPatterns(_)
FoldPatterns(n) ==
    IF n = 0 THEN {<<>>}
    ELSE FoldPatterns(n - 1) \cup {q \o tok : q \in FoldPatterns(n - 1), tok \in FoldTokens}

RECURSIVE FoldTexts(_)
FoldTexts(n) ==
    IF n = 0 THEN {<<>>}
    ELSE FoldTexts(n - 1) \cup {Append(t, b) : t \in FoldTexts(n - 1), b \in FoldBytes}

InitFold ==
    /\ wm \in {[nil |-> FALSE, pattern |-> pat, text |-> txt, called |-> FALSE,
                pathname |-> FALSE, caseFold |-> FALSE, result |-> FALSE] :
                   pat \in FoldPatterns(MaxTokens), txt \in FoldTexts(MaxTextLen)}
    /\ lines = <<>>
    /\ patterns = <<>>
    /\ called = FALSE
    /\ inputPath = <<>>
    /\ isDir = FALSE
    /\ trace = NoTrace
    /\ result = FALSE
    /\ returned = NoSlice
    /\ procs = NoProcs

SpecFold == InitFold /\ [][NextOpt]_vars

\* the text with every ASCII upper-case letter made lower-case
LowerCased(t) == [i \in 1..Len(t) |-> asciiToLower(t[i])]

\* C29: with CaseFold, MatchOpt gives the same answer for every two texts that
\* differ only in the case of ASCII letters (each text agrees with its
\* lower-cased form), ranges and [:upper:] / [:lower:] included, and no byte
\* outside A-Z is changed by folding
C29_CaseFoldIgnoresTextCase ==
    /\ (wm.called /\ wm.caseFold) =>
          wm.result = MatchOpt(wm.pattern, LowerCased(wm.text),
                               [Pathname |-> wm.pathname, CaseFold |-> TRUE])
    /\ \A i \in 1..Len(AsciiTable) :
          ~asciiIsUpper(AsciiTable[i]) => foldASCII(AsciiTable[i], wmCaseFold) = AsciiTable[i]

-----------------------------------------------------------------------------
(* The bracket check of parsePattern against the class rules of the matcher *)

BracketBytes == {"x", "[", "]", "\\"}

RECURSIVE BracketLines(_)
BracketLines(n) ==
    IF n = 0 THEN {<<>>}
    ELSE BracketLines(n - 1)
             \cup {Append(l, b) : l \in BracketLines(n - 1), b \in BracketBytes}

\* one-line rule lists, the lines 'x[[]y' and 'x[]' among them
BracketLists ==
    {<<l>> : l \in BracketLines(MaxTokens) \ {<<>>}}
        \cup { << <<"x", "[", "[", "]", "y">> >>, << <<"x", "[", "]">> >>,
               << <<"x", "[", "[", "]", "y">>, <<"x", "[", "]">> >> }

InitBrackets ==
    /\ lines \in BracketLists
    /\ patterns = New(lines)
    /\ called = FALSE
    /\ inputPath = <<>>
    /\ isDir = FALSE
    /\ trace = NoTrace
    /\ result = FALSE
    /\ returned = NoSlice
    /\ procs = NoProcs
    /\ wm = NoMatchCall

SpecBrackets == InitBrackets /\ [][CallPatterns]_vars

\* the walk of dowild over a pattern as far as the text does not decide it:
\* whether it comes to a '[' whose class has no closing ']' under the class
\* rules (a ']' first in the class is a member, a '\' takes the next byte)
RECURSIVE classLeftOpen(_, _)
classLeftOpen(pattern, pi) ==
    IF pi >= Len(pattern) THEN FALSE
    ELSE IF At(pattern, pi) = "\\" THEN classLeftOpen(pattern, pi + 2)
    ELSE IF At(pattern, pi) = "["
    THEN IF pi + 1 >= Len(pattern) THEN TRUE
         ELSE LET negated == classNegated(pattern, pi + 1)
                  first == IF negated THEN pi + 2 ELSE pi + 1
                  leading == first < Len(pattern) /\ At(pattern, first) = "]"
                  scan == classMembers(pattern, <<"x">>, IF leading THEN first + 1 ELSE first,
                                       0, 0, "x", FALSE, IF leading THEN "]" ELSE NUL)
              IN  IF scan.abort THEN TRUE
                  ELSE IF scan.pi >= Len(pattern) \/ At(pattern, scan.pi) # "]" THEN TRUE
                  ELSE classLeftOpen(pattern, scan.pi + 1)
    ELSE classLeftOpen(pattern, pi + 1)

\* C30: the bracket check drops a line exactly when the matcher would find an
\* unterminated class in it: of the lines that compile but for the bracket
\* check, Patterns() returns those and only those none of whose classes the
\* class rules of the matcher leave open
C30_BracketCheckIsClassCheck ==
    returned # NoSlice =>
        \A i \in 1..Len(lines) :
            (lines[i] # <<>> /\ parseBody(lines[i]) # Nil) =>
                ((\E k \in 1..Len(returned.elems) : returned.elems[k] = lines[i])
                     <=> ~classLeftOpen(lines[i], 0))

=============================================================================
